---- MODULE Spec2Model ----
(***************************************************************************)
(* Box layout and pagination of gompdf.                                    *)
(*                                                                         *)
(* Lengths are fixed-point integers in hundredths of a point, so that the  *)
(* tolerances of the source (0.01 and 1.0) are the integers 1 and 100.     *)
(* Box objects live in a heap (a sequence indexed by object identity), so  *)
(* that cloning and aliasing are visible.  Page indices are 0-based as in  *)
(* the source; page p of a slice is element p+1 of the sequence.           *)
(***************************************************************************)
EXTENDS Integers, Sequences, FiniteSets, TLC

VARIABLES
    pc,               \* position inside the operation under analysis
    geom,             \* Paginator.PageSize / Paginator.Margins
    heap,             \* box objects, indexed by identity
    src,              \* the heap as Layout left it (before Paginate)
    root,             \* identity of the root box handed to Paginate
    contentBoxes,     \* Paginate: contentBoxes
    pages,            \* the page objects reachable through the current slice
    callerLen,        \* len(pages) of Paginate's own slice
    pageBoxes,        \* Paginate: pageBoxes map
    todo,             \* keys of pageBoxes the range loop has not visited yet
    processedBoxes,   \* Paginate: processedBoxes
    tableRowPageMap,  \* Paginate: tableRowPageMap
    addedBoxes,       \* distributeContentToPages: addedBoxes
    contentHashes,    \* distributeContentToPages: contentHashes
    iter,             \* reflowByBottomThreshold: iter
    movedAny,         \* reflowByBottomThreshold: movedAny of the last pass
    result,           \* Paginate: validPages (the returned page list)
    ipc,              \* position inside layoutParagraphInline
    para,             \* the <p> element: its child nodes and its box's width
    container,        \* layoutParagraphInline: container (the <p>'s BlockBox)
    runs,             \* layoutParagraphInline: runs
    raw,              \* layoutParagraphInline: raw
    tokI,             \* layoutParagraphInline: i of the token loop
    line,             \* layoutParagraphInline: line
    lineWidth,        \* layoutParagraphInline: lineWidth
    pendingSpace,     \* layoutParagraphInline: pendingSpace
    curY,             \* layoutParagraphInline: curY
    maxAscent,        \* layoutParagraphInline: maxAscent
    maxDescent,       \* layoutParagraphInline: maxDescent
    tpc,              \* position inside the layout of a table's rows
    table,            \* the <table> element: its style and its <thead> row
    rowIdx,           \* number of <tr> elements processNode has finished
    rowTop,           \* bottom of the last finished row: where the next starts
    row,              \* the <tr> being processed: its node and its BlockBox
    rowGap,           \* layoutTableRow: cellGapX
    rowColWidths,     \* layoutTableRow: colWidths, as computed
    bpc,              \* position inside the layout of a block's children
    doc,              \* the element whose children processNode walks
    bbox,             \* the BlockBox of that element, with its subtree
    lpc,              \* position of a parseLength call
    lenIn,            \* parseLength: value, containerSize, defaultValue
    lenOut,           \* parseLength: the returned length
    mpc,              \* position of each goroutine inside measureTextWidth
    margs,            \* measureTextWidth: text, fontSize, st of each call
    mret,             \* measureTextWidth: the width each call returned
    measureOnce,      \* measureOnce: initMeasurePDF has run
    measureMu,        \* measureMu: the goroutine that holds it, 0 for none
    measurePDF        \* measurePDF: the font selected in the shared object

pagVars == <<pc, geom, heap, src, root, contentBoxes, pages, callerLen,
             pageBoxes, todo, processedBoxes, tableRowPageMap, addedBoxes,
             contentHashes, iter, movedAny, result>>

inlVars == <<ipc, para, container, runs, raw, tokI, line, lineWidth,
             pendingSpace, curY, maxAscent, maxDescent>>

tabVars == <<tpc, table, rowIdx, rowTop, row, rowGap, rowColWidths>>

blkVars == <<bpc, doc, bbox>>

lenVars == <<lpc, lenIn, lenOut>>

msrVars == <<mpc, margs, mret, measureOnce, measureMu, measurePDF>>

vars == <<pagVars, inlVars, tabVars, blkVars, lenVars, msrVars>>

-----------------------------------------------------------------------------
(* Bounds of the explored inputs *)

MaxBoxes == 2          \* boxes below the root

(* Fixed-point scale: 0.01 point is 1, 1.0 point is 100 *)
Unit == 100

\* a nil *html.Node, a nil layout.Box
NilNode == 0
NilBox == 0

-----------------------------------------------------------------------------
(* Generic helpers *)

Max(a, b) == IF a >= b THEN a ELSE b
Min(a, b) == IF a <= b THEN a ELSE b
Abs(a) == IF a < 0 THEN -a ELSE a
Range(s) == {s[i] : i \in 1..Len(s)}

RECURSIVE Sum(_)
\* the sum of a sequence of numbers
Sum(s) == IF s = <<>> THEN 0 ELSE Head(s) + Sum(Tail(s))

RECURSIVE SeqFilter(_, _)
\* the elements of s that are in the set keep, in order
SeqFilter(s, keep) ==
    IF s = <<>> THEN <<>>
    ELSE IF Head(s) \in keep THEN <<Head(s)>> \o SeqFilter(Tail(s), keep)
         ELSE SeqFilter(Tail(s), keep)

-----------------------------------------------------------------------------
(* float64 arithmetic: every sum and difference of the paginator is rounded  *)
(* to the nearest representable value.                                       *)

\* The significant bits a value keeps.  float64 keeps 53; the model keeps 14,
\* which leaves every hundredth of a point below 163.84pt exact.
MantissaBits == 14

RECURSIVE Spacing(_, _)
\* the distance between neighbouring representable values around a >= 0
Spacing(a, s) == IF a < (2 ^ MantissaBits) * s THEN s ELSE Spacing(a, 2 * s)

\* round to nearest, ties to the even mantissa
Fl(x) ==
    IF x > -(2 ^ MantissaBits) /\ x < 2 ^ MantissaBits THEN x
    ELSE LET a == Abs(x)
             s == Spacing(a, 1)
             q == a \div s
             r == a % s
             m == IF 2 * r < s THEN q
                  ELSE IF 2 * r > s THEN q + 1
                  ELSE IF q % 2 = 0 THEN q ELSE q + 1
         IN  IF x < 0 THEN -(m * s) ELSE m * s

-----------------------------------------------------------------------------
(* Page geometry *)

\* Paginate: pageHeight := p.PageSize.Height - Margins.Top - Margins.Bottom
UsableHeight(g) == Fl(Fl(g.Height - g.Top) - g.Bottom)

\* the geometries explored: a 14pt page with 2pt margins (usable height 10pt)
Geometries == {[Height |-> 14 * Unit, Top |-> 2 * Unit, Bottom |-> 2 * Unit]}

HalfPage(g) == UsableHeight(g) \div 2

\* Geometries whose margins leave no room: the usable height is 0 or -2pt.
\* Build is the platform the call runs on, which decides int(x) below.
NoRoomGeometries ==
    {[Height |-> 14 * Unit, Top |-> m * Unit, Bottom |-> m * Unit, Build |-> b] :
        m \in {7, 8}, b \in {"amd64", "arm64"}}

\* The largest and the smallest int.  TLC's integers end at 2^31 - 1,
\* which stands for 1<<63 - 1: only the sign and the size beyond any page
\* count matter.
MaxInt64 == 2147483647
MinInt64 == -2147483647

\* int(x) of a float64 that no int holds is left to the implementation by
\* the Go specification: amd64 yields the smallest int for +Inf and for NaN,
\* arm64 saturates (+Inf gives the largest int, NaN gives 0)
IntOfInf == IF geom.Build = "arm64" THEN MaxInt64 ELSE MinInt64
IntOfNaN == IF geom.Build = "arm64" THEN 0 ELSE MinInt64

\* int(math.Floor(a / b)) in float64, for a divisor of any sign
FloorQuot(a, b) ==
    IF b > 0 THEN a \div b
    ELSE IF b < 0 THEN (-a) \div (-b)
    ELSE IF a > 0 THEN IntOfInf
    ELSE IF a = 0 THEN IntOfNaN
    ELSE MinInt64

\* int(math.Ceil(a / b)) in float64, for a divisor of any sign
CeilQuot(a, b) ==
    IF b > 0 THEN -((-a) \div b)
    ELSE IF b < 0 THEN -(a \div (-b))
    ELSE IF a > 0 THEN IntOfInf
    ELSE IF a = 0 THEN IntOfNaN
    ELSE MinInt64

\* the pages one loop of newPage() calls is followed through; a loop that
\* asks for more never ends before memory does
MaxNewPages == 16

-----------------------------------------------------------------------------
(* Each operation is analysed on its own: while one runs, the state of the   *)
(* others is at rest.                                                        *)

\* no Paginate call in progress
PagIdle ==
    /\ pc = "idle"
    /\ geom = CHOOSE g \in Geometries : TRUE
    /\ heap = <<>>
    /\ src = <<>>
    /\ root = NilBox
    /\ contentBoxes = <<>>
    /\ pages = <<>>
    /\ callerLen = 0
    /\ pageBoxes = <<>>
    /\ todo = {}
    /\ processedBoxes = {}
    /\ tableRowPageMap = <<>>
    /\ addedBoxes = {}
    /\ contentHashes = {}
    /\ iter = 0
    /\ movedAny = FALSE
    /\ result = <<>>

\* no layoutParagraphInline call in progress
InlIdle ==
    /\ ipc = "idle"
    /\ para = <<>>
    /\ container = <<>>
    /\ runs = <<>>
    /\ raw = <<>>
    /\ tokI = 0
    /\ line = <<>>
    /\ lineWidth = 0
    /\ pendingSpace = FALSE
    /\ curY = 0
    /\ maxAscent = 0
    /\ maxDescent = 0

\* no table being laid out
TabIdle ==
    /\ tpc = "idle"
    /\ table = <<>>
    /\ rowIdx = 0
    /\ rowTop = 0
    /\ row = <<>>
    /\ rowGap = 0
    /\ rowColWidths = <<>>

\* no block layout in progress
BlkIdle ==
    /\ bpc = "idle"
    /\ doc = <<>>
    /\ bbox = <<>>

\* no parseLength call in progress
LenIdle ==
    /\ lpc = "idle"
    /\ lenIn = <<>>
    /\ lenOut = 0

\* the goroutines that may call measureTextWidth at the same time
MaxProcs == 2
Procs == 1..MaxProcs

\* a nil *fpdf.Fpdf
NilPDF == [family |-> "", style |-> "", size |-> 0]

\* no call of measureTextWidth yet
MsrIdle ==
    /\ mpc = [p \in Procs |-> "idle"]
    /\ margs = [p \in Procs |-> <<>>]
    /\ mret = [p \in Procs |-> 0]
    /\ measureOnce = FALSE
    /\ measureMu = 0
    /\ measurePDF = NilPDF

-----------------------------------------------------------------------------
(* Boxes *)

\* layout.Box: the fields Paginate reads or copies.  node is the identity of
\* the html.Node (NilNode for none); tag and cls are that node's Data and
\* class attribute.
\* a box built without its own node: every box refers to one shared node
BoxOneNode(kind, node, tag, cls, x, y, h, children) ==
    [kind |-> kind, node |-> 1, tag |-> tag, cls |-> cls,
     X |-> x, Y |-> y, Height |-> h, Children |-> children]

Box(kind, node, tag, cls, x, y, h, children) ==
    [kind |-> kind, node |-> node, tag |-> tag, cls |-> cls,
     X |-> x, Y |-> y, Height |-> h, Children |-> children]

\* BlockBox/InlineBox/ImageBox.SetPosition
SetPosition(h, id, x, y) == [h EXCEPT ![id].X = x, ![id].Y = y]

\* the box kinds of the explored trees: (Go type, Node.Data, class attribute)
BoxTypes ==
    [div    |-> [kind |-> "block",  tag |-> "div",    cls |-> ""],
     tr     |-> [kind |-> "block",  tag |-> "tr",     cls |-> ""],
     header |-> [kind |-> "block",  tag |-> "header", cls |-> ""],
     footer |-> [kind |-> "block",  tag |-> "div",    cls |-> "page-footer"],
     span   |-> [kind |-> "inline", tag |-> "span",   cls |-> ""],
     img    |-> [kind |-> "image",  tag |-> "img",    cls |-> ""]]

TypeNames == DOMAIN BoxTypes

\* One box of an explored tree, in document order.  rel = 0: first child of
\* the previous box (of the root for the first box); rel = a > 0: next
\* sibling of box a, stacked below it with the gap (a margin), as
\* BlockBox.layoutChildren stacks children.  hs is the height in half pages.
BoxChoices(i) ==
    [type : TypeNames, hs : 1..3, rel : 0..(i - 1), gap : 0..1]

RECURSIVE ParentOf(_, _)
\* the parent of box i (0 for the root)
ParentOf(spec, i) ==
    IF spec[i].rel = 0 THEN i - 1 ELSE ParentOf(spec, spec[i].rel)

RECURSIVE IsAncestorOrSelf(_, _, _)
IsAncestorOrSelf(spec, a, j) ==
    IF j = 0 THEN FALSE
    ELSE IF a = j THEN TRUE
    ELSE IsAncestorOrSelf(spec, a, ParentOf(spec, j))

\* a choice of boxes that is a tree in document order
WellFormed(spec) ==
    /\ \A i \in DOMAIN spec : spec[i].rel < i
    /\ \A i \in DOMAIN spec :
        /\ spec[i].rel = 0 => spec[i].gap = 0
        /\ spec[i].rel = 0 /\ i > 1 => BoxTypes[spec[i - 1].type].kind # "image"
        /\ spec[i].rel > 0 => IsAncestorOrSelf(spec, spec[i].rel, i - 1)

RECURSIVE SourceY(_, _, _)
\* the Y Layout gives box i: the parent's top for a first child, else the
\* previous sibling's bottom plus the gap
SourceY(spec, g, i) ==
    IF i = 0 THEN Unit
    ELSE IF spec[i].rel = 0 THEN SourceY(spec, g, i - 1)
    ELSE LET a == spec[i].rel
         IN  SourceY(spec, g, a) + spec[a].hs * HalfPage(g)
                 + spec[i].gap * HalfPage(g)

ChildrenOf(spec, p) ==
    LET kids == {j \in DOMAIN spec : ParentOf(spec, j) = p}
    IN  SeqFilter([j \in 1..Len(spec) |-> j], kids)

\* The heap Layout leaves: boxes 1..n in document order, the root last.
\* Every box has its own node; the node identity is the box identity.
SourceHeap(spec, g) ==
    LET n == Len(spec)
    IN  [i \in 1..(n + 1) |->
            IF i = n + 1
            THEN Box("block", n + 1, "body", "", 0, Unit, 0, ChildrenOf(spec, 0))
            ELSE LET t == BoxTypes[spec[i].type]
                 IN  Box(t.kind, i, t.tag, t.cls, 0, SourceY(spec, g, i),
                         spec[i].hs * HalfPage(g), ChildrenOf(spec, i))]

-----------------------------------------------------------------------------
(* paginate.go helpers *)

RECURSIVE collectBoxes(_, _)
RECURSIVE collectAll(_, _)
\* collectBoxes: the box, then its children's subtrees, depth first
collectBoxes(h, id) ==
    IF id = NilBox THEN <<>>
    ELSE <<id>> \o (IF h[id].kind \in {"block", "inline"}
                    THEN collectAll(h, h[id].Children) ELSE <<>>)
collectAll(h, ids) ==
    IF ids = <<>> THEN <<>>
    ELSE collectBoxes(h, Head(ids)) \o collectAll(h, Tail(ids))

\* the less function of sortBoxesByPosition and of the page sort in
\* reflowByBottomThreshold
Less(h, a, b) ==
    LET yDiff == Fl(h[a].Y - h[b].Y)
    IN  IF Abs(yDiff) < Unit THEN h[a].X < h[b].X ELSE yDiff < 0

RECURSIVE InsertLeft(_, _, _)
\* insertion sort's inner loop: swap element j leftwards while less(j, j-1)
InsertLeft(h, s, j) ==
    IF j > 1 /\ Less(h, s[j], s[j - 1])
    THEN InsertLeft(h, [s EXCEPT ![j] = s[j - 1], ![j - 1] = s[j]], j - 1)
    ELSE s

RECURSIVE InsertionSort(_, _, _)
InsertionSort(h, s, i) ==
    IF i > Len(s) THEN s ELSE InsertionSort(h, InsertLeft(h, s, i), i + 1)

\* sort.Slice on at most 12 elements is an insertion sort
sortBoxesByPosition(h, s) == InsertionSort(h, s, 2)

\* strings.Contains(attr.Val, sub), on the class values of the explored trees
Contains(val, sub) ==
    \/ val = sub
    \/ val = "page-footer" /\ sub = "footer"
    \/ val = "page-header" /\ sub = "header"

\* a BlockBox with a node
IsBlockWithNode(h, id) == h[id].kind = "block" /\ h[id].node # NilNode

isHeader(h, id) ==
    /\ IsBlockWithNode(h, id)
    /\ \/ h[id].tag = "header"
       \/ h[id].cls # "" /\ (Contains(h[id].cls, "header")
                              \/ Contains(h[id].cls, "page-header"))

isFooter(h, id) ==
    /\ IsBlockWithNode(h, id)
    /\ \/ h[id].tag = "footer"
       \/ h[id].cls # "" /\ (Contains(h[id].cls, "footer")
                              \/ Contains(h[id].cls, "page-footer"))

\* mutant of cloneBox: the box itself is handed out instead of a copy
cloneBoxAlias(h, id) == [heap |-> h, id |-> id]

RECURSIVE cloneBox(_, _)
RECURSIVE cloneChildren(_, _, _)
\* cloneBox: a new object [heap, id].  A BlockBox clone gets a Children slice
\* of the same length whose entries stay nil; an InlineBox clone gets clones
\* of its children; any other value is returned itself.
cloneBox(h, id) ==
    IF id = NilBox THEN [heap |-> h, id |-> id]
    ELSE LET b == h[id]
             new == Len(h) + 1
         IN  CASE b.kind = "block" ->
                    [heap |-> Append(h, [b EXCEPT !.Children =
                                  [i \in 1..Len(b.Children) |-> NilBox]]),
                     id |-> new]
               [] b.kind = "inline" ->
                    LET r == cloneChildren(Append(h, b), b.Children, <<>>)
                    IN  [heap |-> [r.heap EXCEPT ![new].Children = r.ids],
                         id |-> new]
               [] b.kind = "image" -> [heap |-> Append(h, b), id |-> new]
               [] OTHER -> [heap |-> h, id |-> id]
cloneChildren(h, ids, acc) ==
    IF ids = <<>> THEN [heap |-> h, ids |-> acc]
    ELSE LET r == cloneBox(h, Head(ids))
         IN  cloneChildren(r.heap, Tail(ids), Append(acc, r.id))

RECURSIVE shiftSubtree(_, _, _, _)
RECURSIVE shiftChildren(_, _, _, _)
\* the package-level shiftSubtree: moves the descendants of b, not b
shiftSubtree(h, b, dx, dy) ==
    IF (dx = 0 /\ dy = 0) \/ b = NilBox THEN h
    ELSE IF h[b].kind \in {"block", "inline"}
         THEN shiftChildren(h, h[b].Children, dx, dy)
         ELSE h
shiftChildren(h, ids, dx, dy) ==
    IF ids = <<>> THEN h
    ELSE LET ch == Head(ids)
         IN  IF ch = NilBox THEN shiftChildren(h, Tail(ids), dx, dy)
             ELSE shiftChildren(
                    shiftSubtree(SetPosition(h, ch, Fl(h[ch].X + dx),
                                             Fl(h[ch].Y + dy)),
                                 ch, dx, dy),
                    Tail(ids), dx, dy)

RECURSIVE gatherNodeKeys(_, _)
\* gatherNodeKeys: the nodes of a box and of its descendants
gatherNodeKeys(h, x) ==
    IF x = NilBox THEN {}
    ELSE (IF h[x].node # NilNode THEN {h[x].node} ELSE {})
         \cup (IF h[x].kind \in {"block", "inline"}
               THEN UNION {gatherNodeKeys(h, h[x].Children[i]) :
                             i \in 1..Len(h[x].Children)}
               ELSE {})

\* the boxes of a page whose node is not in the set (nil nodes are kept)
FilterByNode(h, boxes, subtree) ==
    SeqFilter(boxes, {pb \in Range(boxes) :
                        h[pb].node = NilNode \/ h[pb].node \notin subtree})

RECURSIVE EnsurePages(_, _)
\* for index >= len(pages) { pages = append(pages, empty page) }
EnsurePages(ps, index) ==
    IF index >= Len(ps) THEN EnsurePages(Append(ps, <<>>), index) ELSE ps

\* m[k] = v added to a map (a function on its key set)
MapPut(m, k, v) == [x \in DOMAIN m \cup {k} |-> IF x = k THEN v ELSE m[x]]

-----------------------------------------------------------------------------
(* Paginator.Paginate, lines 100-129: collect, sort, estimate the page count *)

\* the boxes Paginate collects: the descendants of a block root, else the
\* root and its descendants
CollectContent(h, r) ==
    IF h[r].kind = "block" THEN collectAll(h, h[r].Children)
    ELSE collectBoxes(h, r)

\* totalHeight: bottom of the last sorted box minus top of the first
TotalHeight(h, boxes) ==
    IF Len(boxes) > 0
    THEN Fl(Fl(h[boxes[Len(boxes)]].Y + h[boxes[Len(boxes)]].Height)
            - h[boxes[1]].Y)
    ELSE 0

\* int(math.Ceil(totalHeight / pageHeight)), at least 1
PageCount(total, pageHeight) == Max(1, CeilQuot(total, pageHeight))

(* Paginator.Paginate, lines 131-172: provisional page of every box *)

\* the provisional page index of a box at relativeY below the first box
ProvisionalIndex(h, box, relativeY, pageHeight) ==
    LET floorIdx == FloorQuot(relativeY, pageHeight)
        idx == IF 10 * relativeY < 2 * pageHeight THEN 0 ELSE floorIdx
    IN  IF /\ idx > 0
           /\ pageHeight > 0
           /\ 10 * (relativeY % pageHeight) > 9 * pageHeight
           /\ IsBlockWithNode(h, box)
           /\ h[box].tag \in {"tr", "td"}
        THEN floorIdx
        ELSE idx

RECURSIVE AssignBoxes(_, _, _, _)
\* the loop of lines 146-172 over the boxes not yet visited;
\* st = [pages, pageBoxes, processed, startY, oom]
AssignBoxes(st, boxes, h, g) ==
    IF boxes = <<>> \/ st.oom THEN st
    ELSE LET box == Head(boxes)
         IN  IF box \in st.processed THEN AssignBoxes(st, Tail(boxes), h, g)
             ELSE LET relativeY == Fl(h[box].Y - st.startY)
                      pageIndex == ProvisionalIndex(h, box, relativeY,
                                                    UsableHeight(g))
                      old == IF pageIndex \in DOMAIN st.pageBoxes
                             THEN st.pageBoxes[pageIndex] ELSE <<>>
                  IN  IF pageIndex - Len(st.pages) >= MaxNewPages
                      THEN [st EXCEPT !.oom = TRUE]
                      ELSE
                      AssignBoxes(
                        [st EXCEPT !.pages = EnsurePages(@, pageIndex),
                                   !.pageBoxes = MapPut(@, pageIndex,
                                                        Append(old, box)),
                                   !.processed = @ \cup {box}],
                        Tail(boxes), h, g)

(* Paginator.Paginate, lines 173-214: the page of every table row *)

IsRow(h, id) == IsBlockWithNode(h, id) /\ h[id].tag = "tr"

RECURSIVE LastTableRow(_, _, _)
\* the row with the largest Y, the first such in sorted order (NilBox: none)
LastTableRow(h, boxes, last) ==
    IF boxes = <<>> THEN last
    ELSE LET box == Head(boxes)
         IN  IF IsRow(h, box) /\ (last = NilBox \/ h[box].Y > h[last].Y)
             THEN LastTableRow(h, Tail(boxes), box)
             ELSE LastTableRow(h, Tail(boxes), last)

RECURSIVE MapRows(_, _, _, _, _, _, _)
MapRows(m, boxes, h, last, startY, pageHeight, npages) ==
    IF boxes = <<>> THEN m
    ELSE LET box == Head(boxes)
             desired == Min(FloorQuot(Fl(h[box].Y - startY), pageHeight),
                            npages - 1)
         IN  IF ~IsRow(h, box)
             THEN MapRows(m, Tail(boxes), h, last, startY, pageHeight, npages)
             ELSE IF last # NilBox
                     /\ Fl(h[last].Y - startY) > Fl(pageHeight * (npages - 1))
             THEN MapRows(MapPut(m, h[last].node, npages - 1), Tail(boxes),
                          h, last, startY, pageHeight, npages)
             ELSE MapRows(MapPut(m, h[box].node, desired), Tail(boxes),
                          h, last, startY, pageHeight, npages)

-----------------------------------------------------------------------------
(* distributeContentToPages *)

\* the 0.01 slack of the first-page overflow test and of the reflow pin test
Eps == 1

\* mutant of PushForward: a box that overflows skips a page
PushForwardSkipping(target, relativeY, height, g, pageHeight) ==
    IF Fl(Fl(g.Top + Fl(relativeY - Fl(target * pageHeight))) + height)
           > Fl(g.Height - g.Bottom)
    THEN target + 2
    ELSE target

\* mutant of PushForward: the box stays on its provisional page
PushForwardNever(target, relativeY, height, g, pageHeight) == target

RECURSIVE PushForward(_, _, _, _, _)
\* lines 324-335: advance the target page until the box ends above the
\* bottom margin; the page index reached
PushForward(target, relativeY, height, g, pageHeight) ==
    IF Fl(Fl(g.Top + Fl(relativeY - Fl(target * pageHeight))) + height)
           > Fl(g.Height - g.Bottom)
    THEN PushForward(target + 1, relativeY, height, g, pageHeight)
    ELSE target

\* lines 314-389: clone the box, choose its page and Y, append the clone;
\* st = [heap, pages, added, hashes, panic]
PlaceBox(st, box, pageIndex, firstPageMinY, startY, g) ==
    LET c == cloneBox(st.heap, box)
        clonedBox == c.id
        h1 == c.heap
        height == h1[clonedBox].Height
        oldY == h1[clonedBox].Y
        pageHeight == UsableHeight(g)
        moveTo(h, y) == shiftSubtree(SetPosition(h, clonedBox, h[clonedBox].X, y),
                                     clonedBox, 0, Fl(y - oldY))
        done(h, ps, target) ==
            [st EXCEPT !.heap = h,
                       !.pages = [ps EXCEPT ![target + 1] = Append(@, clonedBox)],
                       !.added = @ \cup {box}]
    IN  IF pageIndex > 0
        THEN LET relativeY == Fl(st.heap[box].Y - startY)
                 target == PushForward(pageIndex, relativeY, height, g, pageHeight)
                 newY == Max(g.Top, Fl(g.Top + Fl(relativeY
                                                  - Fl(target * pageHeight))))
             IN  done(moveTo(h1, newY), EnsurePages(st.pages, target), target)
        ELSE LET normalizedY == Max(g.Top, Fl(g.Top + Fl(st.heap[box].Y
                                                          - firstPageMinY)))
             IN  IF Fl(normalizedY + height)
                        >= Fl(Fl(g.Height - g.Bottom) - Eps)
                 THEN LET ps == EnsurePages(st.pages, 1)
                          subtree == gatherNodeKeys(st.heap, box)
                          ps0 == IF Len(ps[1]) > 0
                                 THEN [ps EXCEPT ![1] = FilterByNode(h1, @, subtree)]
                                 ELSE ps
                      IN  done(moveTo(h1, g.Top), ps0, 1)
                 ELSE IF pageIndex < 0
                 THEN \* pages[targetPageIndex] with a negative index
                      [st EXCEPT !.panic = TRUE]
                 ELSE done(moveTo(h1, normalizedY), st.pages, pageIndex)

\* lines 289-312: the boxes the loop skips
DistributeBox(st, box, pageIndex, firstPageMinY, startY, rowMap, g) ==
    LET b == st.heap[box]
        hashed == IsBlockWithNode(st.heap, box) /\ b.tag \in {"tr", "td"}
        contentHash == <<b.tag, b.X, b.Y>>
        st1 == IF hashed THEN [st EXCEPT !.hashes = @ \cup {contentHash}] ELSE st
    IN  IF st.panic \/ box \in st.added THEN st
        ELSE IF hashed /\ contentHash \in st.hashes THEN st
        ELSE IF /\ IsRow(st.heap, box)
                /\ b.node \in DOMAIN rowMap
                /\ rowMap[b.node] # pageIndex
        THEN st1
        ELSE PlaceBox(st1, box, pageIndex, firstPageMinY, startY, g)

RECURSIVE DistributeBoxes(_, _, _, _, _, _, _)
DistributeBoxes(st, boxes, pageIndex, firstPageMinY, startY, rowMap, g) ==
    IF boxes = <<>> THEN st
    ELSE DistributeBoxes(
            DistributeBox(st, Head(boxes), pageIndex, firstPageMinY, startY,
                          rowMap, g),
            Tail(boxes), pageIndex, firstPageMinY, startY, rowMap, g)

RECURSIVE MinY(_, _, _)
MinY(h, boxes, m) ==
    IF boxes = <<>> THEN m
    ELSE MinY(h, Tail(boxes), IF h[Head(boxes)].Y < m THEN h[Head(boxes)].Y ELSE m)

\* lines 275-287: the smallest Y of the first page's boxes (0 when it has none)
FirstPageMinY(h, boxes) ==
    IF boxes = <<>> THEN 0 ELSE MinY(h, Tail(boxes), h[Head(boxes)].Y)

\* one iteration of the range loop over pageBoxes, lines 261-391
DistributePage(st, pageIndex, boxes, startY, rowMap, g) ==
    DistributeBoxes([st EXCEPT !.pages = EnsurePages(@, pageIndex)],
                    boxes, pageIndex,
                    IF pageIndex = 0 THEN FirstPageMinY(st.heap, boxes) ELSE 0,
                    startY, rowMap, g)

-----------------------------------------------------------------------------
(* Paginator.reflowByBottomThreshold *)

maxIterations == 50
maxTries == 1000

RECURSIVE reflowShiftSubtree(_, _, _, _)
RECURSIVE reflowShiftChildren(_, _, _, _)
\* the shiftSubtree closure of reflowByBottomThreshold: moves x itself and
\* then its descendants
reflowShiftSubtree(h, x, dx, dy) ==
    IF x = NilBox THEN h
    ELSE LET h1 == SetPosition(h, x, Fl(h[x].X + dx), Fl(h[x].Y + dy))
         IN  IF h1[x].kind \in {"block", "inline"}
             THEN reflowShiftChildren(h1, h1[x].Children, dx, dy)
             ELSE h1
reflowShiftChildren(h, ids, dx, dy) ==
    IF ids = <<>> THEN h
    ELSE reflowShiftChildren(reflowShiftSubtree(h, Head(ids), dx, dy),
                             Tail(ids), dx, dy)

RECURSIVE MaxBottom(_, _, _)
\* lines 630-636: the largest bottom of a page's boxes, at least m
MaxBottom(h, boxes, m) ==
    IF boxes = <<>> THEN m
    ELSE LET nb == Head(boxes)
         IN  MaxBottom(h, Tail(boxes), Max(m, Fl(h[nb].Y + h[nb].Height)))

RemoveAt(s, j) == SubSeq(s, 1, j - 1) \o SubSeq(s, j + 1, Len(s))

RECURSIVE FindDestination(_, _, _, _, _)
\* lines 620-660: put b on the first page from dst on where it fits below
\* the page's content; st = [heap, pages, moved, panic]; dst is 0-based
FindDestination(st, b, dst, tries, g) ==
    LET ps == IF dst >= Len(st.pages) THEN Append(st.pages, <<>>) ELSE st.pages
        nextPage == ps[dst + 1]
        y == IF Len(nextPage) > 0 THEN MaxBottom(st.heap, nextPage, g.Top)
             ELSE g.Top
        oldY == st.heap[b].Y
    IN  IF Fl(y + st.heap[b].Height) > Fl(g.Height - g.Bottom)
        THEN IF tries + 1 > maxTries
             THEN \* safety guard: top of page dst+1, which may not exist
                  IF dst + 1 >= Len(ps)
                  THEN [st EXCEPT !.pages = ps, !.panic = TRUE]
                  ELSE [st EXCEPT
                          !.heap = reflowShiftSubtree(
                                       SetPosition(@, b, @[b].X, g.Top), b, 0, 0),
                          !.pages = [ps EXCEPT ![dst + 2] = Append(@, b)],
                          !.moved = TRUE]
             ELSE IF dst >= Len(st.pages)
             THEN \* page dst is new and b does not fit at its top: neither
                  \* does it on the pages the search goes on to append, until
                  \* tries passes maxTries and the guard indexes the page
                  \* after the last one
                  [st EXCEPT !.pages = ps, !.panic = TRUE]
             ELSE FindDestination([st EXCEPT !.pages = ps], b, dst + 1,
                                  tries + 1, g)
        ELSE [st EXCEPT
                !.heap = reflowShiftSubtree(SetPosition(@, b, @[b].X, y),
                                            b, 0, Fl(y - oldY)),
                !.pages = [ps EXCEPT ![dst + 1] = Append(@, b)],
                !.moved = TRUE]

RECURSIVE ReflowPageBoxes(_, _, _, _)
\* lines 584-664: the scan of page i (0-based) from index j (1-based here)
ReflowPageBoxes(st, i, j, g) ==
    LET boxes == st.pages[i + 1]
    IN  IF st.panic \/ j > Len(boxes) THEN st
        ELSE
        LET b == boxes[j]
            height == st.heap[b].Height
            oldY == st.heap[b].Y
        IN  IF height > UsableHeight(g)
            THEN IF oldY > Fl(g.Top + Eps)
                 THEN ReflowPageBoxes(
                        [st EXCEPT
                           !.heap = reflowShiftSubtree(
                                        SetPosition(@, b, @[b].X, g.Top),
                                        b, 0, Fl(g.Top - oldY)),
                           !.moved = TRUE],
                        i, j + 1, g)
                 ELSE ReflowPageBoxes(st, i, j + 1, g)
            ELSE IF Fl(oldY + height) > Fl(g.Height - g.Bottom)
            THEN LET subtree == gatherNodeKeys(st.heap, b)
                     filtered == FilterByNode(st.heap, RemoveAt(boxes, j), subtree)
                     st1 == [st EXCEPT !.pages[i + 1] = filtered]
                 IN  ReflowPageBoxes(FindDestination(st1, b, i + 1, 0, g), i, 1, g)
            ELSE ReflowPageBoxes(st, i, j + 1, g)

RECURSIVE ReflowPages(_, _, _)
\* lines 582-676: scan and re-sort every page, including pages added on the way
ReflowPages(st, i, g) ==
    IF st.panic \/ i >= Len(st.pages) THEN st
    ELSE LET st1 == ReflowPageBoxes(st, i, 1, g)
             sorted == IF Len(st1.pages[i + 1]) > 1
                       THEN sortBoxesByPosition(st1.heap, st1.pages[i + 1])
                       ELSE st1.pages[i + 1]
         IN  ReflowPages([st1 EXCEPT !.pages[i + 1] = sorted], i + 1, g)

\* one iteration of the loop of line 579
ReflowPass(h, ps, g) ==
    ReflowPages([heap |-> h, pages |-> ps, moved |-> FALSE, panic |-> FALSE], 0, g)

-----------------------------------------------------------------------------
(* Paginate as a state machine: one action per phase of Paginator.Paginate,  *)
(* one per iteration of the range loop over the pageBoxes map (whose order   *)
(* the Go runtime chooses) and one per pass of the reflow loop.              *)

\* the source trees explored: up to MaxBoxes boxes below a block root, a
\* root without children, and a nil root
SourceTrees(g) ==
    {<<>>} \cup
    UNION {{SourceHeap(spec, g) :
              spec \in {sp \in [1..n -> BoxChoices(n)] : WellFormed(sp)}} :
           n \in 0..MaxBoxes}

Init ==
    /\ pc = "start"
    /\ geom \in Geometries
    /\ heap \in SourceTrees(geom)
    /\ src = heap
    /\ root = Len(heap)
    /\ contentBoxes = <<>>
    /\ pages = <<>>
    /\ callerLen = 0
    /\ pageBoxes = <<>>
    /\ todo = {}
    /\ processedBoxes = {}
    /\ tableRowPageMap = <<>>
    /\ addedBoxes = {}
    /\ contentHashes = {}
    /\ iter = 0
    /\ movedAny = FALSE
    /\ result = <<>>
    /\ InlIdle
    /\ TabIdle
    /\ BlkIdle
    /\ LenIdle
    /\ MsrIdle

\* lines 87-129: first page, nil container, collect, sort, page count
Collect ==
    /\ pc = "start"
    /\ IF root = NilBox
       THEN /\ pages' = <<<<>>>>
            /\ result' = <<<<>>>>
            /\ contentBoxes' = <<>>
            /\ pc' = "done"
       ELSE LET boxes == sortBoxesByPosition(heap, CollectContent(heap, root))
                count == PageCount(TotalHeight(heap, boxes), UsableHeight(geom))
            IN  /\ contentBoxes' = boxes
                /\ result' = result
                /\ IF count - 1 >= MaxNewPages
                   THEN /\ pages' = <<<<>>>>
                        /\ pc' = "oom"
                   ELSE /\ pages' = [i \in 1..count |-> <<>>]
                        /\ pc' = "assign"
    /\ callerLen' = Len(pages')
    /\ UNCHANGED <<inlVars, tabVars, blkVars, lenVars, msrVars>>
    /\ UNCHANGED <<geom, heap, src, root, pageBoxes, todo, processedBoxes,
                   tableRowPageMap, addedBoxes, contentHashes, iter, movedAny>>

\* lines 131-172: headers and footers are marked processed, every other box
\* gets its provisional page
Assign ==
    /\ pc = "assign"
    /\ LET marked == {b \in Range(contentBoxes) :
                        isHeader(heap, b) \/ isFooter(heap, b)}
           st == AssignBoxes([pages |-> pages, pageBoxes |-> <<>>,
                              processed |-> marked,
                              startY |-> IF contentBoxes = <<>> THEN 0
                                         ELSE heap[contentBoxes[1]].Y,
                              oom |-> FALSE],
                             contentBoxes, heap, geom)
       IN  /\ pages' = st.pages
           /\ pageBoxes' = st.pageBoxes
           /\ processedBoxes' = st.processed
           /\ pc' = IF st.oom THEN "oom" ELSE "rows"
    /\ callerLen' = Len(pages')
    /\ UNCHANGED <<inlVars, tabVars, blkVars, lenVars, msrVars>>
    /\ UNCHANGED <<geom, heap, src, root, contentBoxes, todo, tableRowPageMap,
                   addedBoxes, contentHashes, iter, movedAny, result>>

\* lines 173-214: the table-row page map; then distributeContentToPages is
\* entered
MapTableRows ==
    /\ pc = "rows"
    /\ tableRowPageMap' =
           IF contentBoxes = <<>> THEN <<>>
           ELSE MapRows(<<>>, contentBoxes, heap,
                        LastTableRow(heap, contentBoxes, NilBox),
                        heap[contentBoxes[1]].Y, UsableHeight(geom), Len(pages))
    /\ todo' = DOMAIN pageBoxes
    /\ pc' = "distribute"
    /\ UNCHANGED <<inlVars, tabVars, blkVars, lenVars, msrVars>>
    /\ UNCHANGED <<geom, heap, src, root, contentBoxes, pages, callerLen,
                   pageBoxes, processedBoxes, addedBoxes, contentHashes, iter,
                   movedAny, result>>

\* lines 261-391: the range loop visits one more key of pageBoxes, any one
Distribute ==
    /\ pc = "distribute"
    /\ \E pageIndex \in todo :
          LET st == DistributePage([heap |-> heap, pages |-> pages,
                                    added |-> addedBoxes,
                                    hashes |-> contentHashes,
                                    panic |-> FALSE],
                                   pageIndex, pageBoxes[pageIndex],
                                   heap[contentBoxes[1]].Y, tableRowPageMap,
                                   geom)
          IN  /\ heap' = st.heap
              /\ pages' = st.pages
              /\ addedBoxes' = st.added
              /\ contentHashes' = st.hashes
              /\ todo' = todo \ {pageIndex}
              /\ pc' = IF st.panic THEN "panic" ELSE pc
    /\ UNCHANGED <<inlVars, tabVars, blkVars, lenVars, msrVars>>
    /\ UNCHANGED <<geom, src, root, contentBoxes, callerLen, pageBoxes,
                   processedBoxes, tableRowPageMap, iter, movedAny, result>>

\* distributeContentToPages returns: Paginate still holds its own slice, of
\* callerLen pages; pages appended inside the callee are not in it
DistributeReturn ==
    /\ pc = "distribute"
    /\ todo = {}
    /\ pages' = SubSeq(pages, 1, callerLen)
    /\ pc' = "reflow"
    /\ UNCHANGED <<inlVars, tabVars, blkVars, lenVars, msrVars>>
    /\ UNCHANGED <<geom, heap, src, root, contentBoxes, callerLen, pageBoxes,
                   todo, processedBoxes, tableRowPageMap, addedBoxes,
                   contentHashes, iter, movedAny, result>>

\* lines 579-680: one pass of the reflow loop
Reflow ==
    /\ pc = "reflow"
    /\ iter < maxIterations
    /\ LET st == ReflowPass(heap, pages, geom)
       IN  /\ heap' = st.heap
           /\ pages' = st.pages
           /\ movedAny' = st.moved
           /\ pc' = IF st.panic THEN "panic"
                    ELSE IF ~st.moved \/ iter + 1 >= maxIterations THEN "filter"
                    ELSE "reflow"
    /\ iter' = iter + 1
    /\ UNCHANGED <<inlVars, tabVars, blkVars, lenVars, msrVars>>
    /\ UNCHANGED <<geom, src, root, contentBoxes, callerLen, pageBoxes, todo,
                   processedBoxes, tableRowPageMap, addedBoxes, contentHashes,
                   result>>

\* lines 220-226: the pages that hold a box are returned
DropEmpty ==
    /\ pc = "filter"
    /\ result' = SelectSeq(pages, LAMBDA page : Len(page) > 0)
    /\ pc' = "done"
    /\ UNCHANGED <<inlVars, tabVars, blkVars, lenVars, msrVars>>
    /\ UNCHANGED <<geom, heap, src, root, contentBoxes, pages, callerLen,
                   pageBoxes, todo, processedBoxes, tableRowPageMap, addedBoxes,
                   contentHashes, iter, movedAny>>

Next ==
    \/ Collect
    \/ Assign
    \/ MapTableRows
    \/ Distribute
    \/ DistributeReturn
    \/ Reflow
    \/ DropEmpty

Spec == Init /\ [][Next]_vars

\* dense content: three to five boxes stacked without gaps below the root,
\* each half a page or a page tall, two and a half pages in all
DenseTrees(g) ==
    UNION {{SourceHeap(spec, g) :
              spec \in {sp \in [1..n -> [type : {"div", "tr", "img"},
                                         hs : 1..2, rel : 0..(n - 1),
                                         gap : {0}]] :
                           /\ \A i \in 1..n : sp[i].rel = i - 1
                           /\ Sum([i \in 1..n |-> sp[i].hs]) = 5}} :
           n \in 3..5}

InitDense ==
    /\ pc = "start"
    /\ geom \in Geometries
    /\ heap \in DenseTrees(geom)
    /\ src = heap
    /\ root = Len(heap)
    /\ contentBoxes = <<>>
    /\ pages = <<>>
    /\ callerLen = 0
    /\ pageBoxes = <<>>
    /\ todo = {}
    /\ processedBoxes = {}
    /\ tableRowPageMap = <<>>
    /\ addedBoxes = {}
    /\ contentHashes = {}
    /\ iter = 0
    /\ movedAny = FALSE
    /\ result = <<>>
    /\ InlIdle
    /\ TabIdle
    /\ BlkIdle
    /\ LenIdle
    /\ MsrIdle

\* Paginate on dense content
SpecDense == InitDense /\ [][Next]_vars

TypeOK ==
    /\ pc \in {"idle", "start", "assign", "rows", "distribute", "reflow", "filter",
                "done", "panic", "oom"}
    /\ iter \in 0..maxIterations

-----------------------------------------------------------------------------
(* Paginate with the range loop visiting the pageBoxes keys in ascending     *)
(* order: one of the runs the Go runtime may produce.                        *)

RECURSIVE DistributeAscending(_, _, _, _, _, _)
DistributeAscending(st, keys, pb, startY, rowMap, g) ==
    IF keys = {} THEN st
    ELSE LET k == CHOOSE x \in keys : \A y \in keys : x <= y
         IN  DistributeAscending(DistributePage(st, k, pb[k], startY, rowMap, g),
                                 keys \ {k}, pb, startY, rowMap, g)

RECURSIVE ReflowLoop(_, _, _, _)
\* lines 578-681: passes until one moves nothing or the ceiling is reached
ReflowLoop(h, ps, g, n) ==
    IF n >= maxIterations THEN [heap |-> h, pages |-> ps]
    ELSE LET st == ReflowPass(h, ps, g)
         IN  IF st.panic \/ ~st.moved THEN [heap |-> st.heap, pages |-> st.pages]
             ELSE ReflowLoop(st.heap, st.pages, g, n + 1)

RECURSIVE BoxValue(_, _)
\* a box as a value: its fields, with its children as values (nil: NilBox)
BoxValue(h, id) ==
    IF id = NilBox THEN NilBox
    ELSE [h[id] EXCEPT !.Children =
              [i \in 1..Len(h[id].Children) |-> BoxValue(h, h[id].Children[i])]]

\* a page list as a value
PageValues(h, ps) ==
    [p \in 1..Len(ps) |-> [k \in 1..Len(ps[p]) |-> BoxValue(h, ps[p][k])]]

\* what Paginate returns for the tree h, r when the map is ranged in
\* ascending key order
PaginateAscending(h, r, g) ==
    IF r = NilBox THEN <<<<>>>>
    ELSE
    LET boxes == sortBoxesByPosition(h, CollectContent(h, r))
        count == PageCount(TotalHeight(h, boxes), UsableHeight(g))
        startY == IF boxes = <<>> THEN 0 ELSE h[boxes[1]].Y
        a == AssignBoxes([pages |-> [i \in 1..count |-> <<>>],
                          pageBoxes |-> <<>>,
                          processed |-> {b \in Range(boxes) :
                                           isHeader(h, b) \/ isFooter(h, b)},
                          startY |-> startY, oom |-> FALSE],
                         boxes, h, g)
        rowMap == IF boxes = <<>> THEN <<>>
                  ELSE MapRows(<<>>, boxes, h, LastTableRow(h, boxes, NilBox),
                               startY, UsableHeight(g), Len(a.pages))
        d == DistributeAscending([heap |-> h, pages |-> a.pages, added |-> {},
                                  hashes |-> {}, panic |-> FALSE],
                                 DOMAIN a.pageBoxes, a.pageBoxes, startY,
                                 rowMap, g)
        f == ReflowLoop(d.heap, SubSeq(d.pages, 1, Len(a.pages)), g, 0)
    IN  PageValues(f.heap, SelectSeq(f.pages, LAMBDA page : Len(page) > 0))

-----------------------------------------------------------------------------
(* Properties of Paginate *)

Done == pc = "done" /\ root # NilBox

\* the positions <<page, index>> of the returned pages' top-level boxes
Placed == {<<p, k>> \in (1..Len(result)) \X (1..Len(heap)) : k <= Len(result[p])}

\* the placed boxes that come from source box b, by originating node
ClonesOf(b) == {e \in Placed : heap[result[e[1]][e[2]]].node = src[b].node}

Oversized(b) == src[b].Height > UsableHeight(geom)

\* C1 (as claimed): when Paginate has returned, every collected box has
\* exactly one clone, on exactly one returned page.
C1_EveryBoxOnExactlyOnePage ==
    Done => \A b \in Range(contentBoxes) : Cardinality(ClonesOf(b)) = 1

\* the top and bottom limits of a page's content area
InsideMargins(id) ==
    /\ heap[id].Y >= geom.Top - Eps
    /\ heap[id].Y + heap[id].Height <= geom.Height - geom.Bottom + Eps

\* C2: when Paginate has returned, every top-level box of every returned
\* page lies between the top and bottom margins (within 0.01), unless the
\* box is taller than the usable page height.
C2_BoxesInsideMargins ==
    Done => \A e \in Placed :
               LET id == result[e[1]][e[2]]
               IN  heap[id].Height > UsableHeight(geom) \/ InsideMargins(id)

\* C2 witness: a returned box that fits a page and whose place on the first
\* page would have crossed the bottom margin
C2_Witness ==
    /\ Done
    /\ \E b \in Range(contentBoxes) :
          /\ ~Oversized(b)
          /\ ClonesOf(b) # {}
          /\ geom.Top + (src[b].Y - src[contentBoxes[1]].Y) + src[b].Height
                 > geom.Height - geom.Bottom

\* C3 (as claimed): a box taller than the usable page height is on exactly
\* one returned page, at the top margin.
C3_OversizedPinnedOnce ==
    Done => \A b \in Range(contentBoxes) :
               Oversized(b) =>
                   /\ Cardinality(ClonesOf(b)) = 1
                   /\ \A e \in ClonesOf(b) : heap[result[e[1]][e[2]]].Y = geom.Top

\* C4 (as claimed): every run of Paginate on a tree returns the same page
\* list, whatever order the range loop over pageBoxes takes.
C4_Deterministic ==
    pc = "done" => PageValues(heap, result) = PaginateAscending(src, root, geom)

\* the boxes reachable from a box through Children
RECURSIVE Reachable(_, _)
Reachable(h, id) ==
    IF id = NilBox THEN {}
    ELSE {id} \cup UNION {Reachable(h, h[id].Children[i]) :
                            i \in 1..Len(h[id].Children)}

ReachableFromPage(page) == UNION {Reachable(heap, page[k]) : k \in 1..Len(page)}

\* C6: Paginate never changes a source box, and no box reachable from a
\* returned page is a source box or is reachable from another returned page.
C6_SourceUntouchedNoAliases ==
    /\ SubSeq(heap, 1, Len(src)) = src
    /\ pc = "done" =>
          /\ \A p \in 1..Len(result) :
                \A id \in ReachableFromPage(result[p]) : id > Len(src)
          /\ \A p, q \in 1..Len(result) :
                p # q => ReachableFromPage(result[p])
                            \cap ReachableFromPage(result[q]) = {}

\* C6 witness: two returned pages, one of them holding a clone that has
\* cloned children and was moved away from its source position
C6_Witness ==
    /\ Done
    /\ Len(result) >= 2
    /\ \E e \in Placed :
          LET id == result[e[1]][e[2]]
          IN  /\ Len(heap[id].Children) > 0
              /\ heap[id].Children[1] # NilBox
              /\ heap[id].Y # src[heap[id].node].Y

\* C9 (as claimed): content 2.5 usable heights tall, no box taller than the
\* usable height: exactly 3 pages are returned (each holding a box).
C9_ThreePages ==
    (/\ Done
     /\ 2 * TotalHeight(src, contentBoxes) = 5 * UsableHeight(geom)
     /\ \A b \in Range(contentBoxes) : ~Oversized(b))
    => /\ Len(result) = 3
       /\ \A p \in 1..Len(result) : Len(result[p]) > 0

\* C10 (as claimed): a header or footer box has a clone on every returned
\* page.
C10_HeadersOnEveryPage ==
    Done => \A b \in Range(contentBoxes) :
               (isHeader(src, b) \/ isFooter(src, b)) =>
                   \A p \in 1..Len(result) :
                       \E k \in 1..Len(result[p]) :
                           heap[result[p][k]].node = src[b].node

\* the top-level boxes of returned page p that are table rows
RowsOnPage(p) ==
    {k \in 1..Len(result[p]) : /\ heap[result[p][k]].kind = "block"
                               /\ heap[result[p][k]].tag = "tr"}

RECURSIVE DeepCopy(_, _, _)
\* in heap h, box c is another object than box b with b's fields, and its
\* children are, one by one, such copies of b's children
DeepCopy(h, b, c) ==
    /\ c # NilBox
    /\ c # b
    /\ [h[c] EXCEPT !.Children = <<>>] = [h[b] EXCEPT !.Children = <<>>]
    /\ Len(h[c].Children) = Len(h[b].Children)
    /\ \A i \in 1..Len(h[b].Children) :
           DeepCopy(h, h[b].Children[i], h[c].Children[i])

\* C20 (as claimed): for every box b of the tree Paginate is given, of any
\* kind, cloneBox(b) is a deep copy: the same fields, as many children, and
\* each child a non-nil deep copy of the corresponding child of b.
C20_CloneIsDeepCopy ==
    root # NilBox =>
        \A b \in 1..Len(src) :
            DeepCopy(cloneBox(src, b).heap, b, cloneBox(src, b).id)

\* C24 (as claimed): every page of the list Paginate returns holds at least
\* one box, for every input, a nil root and a root without children included.
C24_NoEmptyPageReturned ==
    pc = "done" => \A p \in 1..Len(result) : Len(result[p]) > 0

\* the part of C24 about a root that is not nil
C24_NoEmptyPageForATree ==
    Done => \A p \in 1..Len(result) : Len(result[p]) > 0

-----------------------------------------------------------------------------
(* Order and separation of the placed boxes *)

\* source box a ends where source box b begins, or above
EndsAbove(a, b) == src[a].Y + src[a].Height <= src[b].Y

\* neither source box is an ancestor of the other
Unrelated(a, b) ==
    /\ a # b
    /\ a \notin Reachable(src, b)
    /\ b \notin Reachable(src, a)

\* C27: two source boxes, neither an ancestor of the other and neither
\* taller than the usable height, of which the first ends above the second,
\* do not overlap when they are placed on the same returned page: the first
\* one's bottom is at or above the second one's top (within 0.01).
C27_DisjointStayDisjoint ==
    Done => \A a, b \in Range(contentBoxes) :
               /\ Unrelated(a, b)
               /\ EndsAbove(a, b)
               /\ ~Oversized(a)
               /\ ~Oversized(b)
               => \A ea \in ClonesOf(a), eb \in ClonesOf(b) :
                     ea[1] = eb[1] =>
                        LET ca == result[ea[1]][ea[2]]
                            cb == result[eb[1]][eb[2]]
                        IN  heap[ca].Y + heap[ca].Height <= heap[cb].Y + Eps

\* C28: reading order is kept across pages: when source box a ends above
\* source box b and both are placed, the page that holds a is not after the
\* page that holds b.
C28_ReadingOrderKept ==
    Done => \A a, b \in Range(contentBoxes) :
               EndsAbove(a, b)
               => \A ea \in ClonesOf(a), eb \in ClonesOf(b) : ea[1] <= eb[1]

\* C28's case: a box that was pushed past its provisional page and a box
\* that begins below its end are both placed, the second on a later page
C28_Witness ==
    /\ Done
    /\ \E a, b \in Range(contentBoxes) :
          /\ EndsAbove(a, b)
          /\ \E ea \in ClonesOf(a), eb \in ClonesOf(b) :
                /\ ea[1] < eb[1]
                /\ heap[result[ea[1]][ea[2]]].Y # src[a].Y
                /\ FloorQuot(src[a].Y - src[contentBoxes[1]].Y,
                             UsableHeight(geom)) > 0
                /\ FloorQuot(src[a].Y + src[a].Height
                                - src[contentBoxes[1]].Y - 1,
                             UsableHeight(geom))
                      > FloorQuot(src[a].Y - src[contentBoxes[1]].Y,
                                  UsableHeight(geom))

-----------------------------------------------------------------------------
(* Paginate on a longer document: four or five boxes stacked without gaps,   *)
(* each half a page or a page tall, three and a half pages in all, so that a *)
(* box pushed past its provisional page is followed by further boxes.        *)

LongTrees(g) ==
    UNION {{SourceHeap(spec, g) :
              spec \in {sp \in [1..n -> [type : {"div", "tr"}, hs : 1..2,
                                         rel : 0..(n - 1), gap : {0}]] :
                           /\ \A i \in 1..n : sp[i].rel = i - 1
                           /\ Sum([i \in 1..n |-> sp[i].hs]) = 7}} :
           n \in 4..5}

InitLong ==
    /\ pc = "start"
    /\ geom \in Geometries
    /\ heap \in LongTrees(geom)
    /\ src = heap
    /\ root = Len(heap)
    /\ contentBoxes = <<>>
    /\ pages = <<>>
    /\ callerLen = 0
    /\ pageBoxes = <<>>
    /\ todo = {}
    /\ processedBoxes = {}
    /\ tableRowPageMap = <<>>
    /\ addedBoxes = {}
    /\ contentHashes = {}
    /\ iter = 0
    /\ movedAny = FALSE
    /\ result = <<>>
    /\ InlIdle
    /\ TabIdle
    /\ BlkIdle
    /\ LenIdle
    /\ MsrIdle

SpecLong == InitLong /\ [][Next]_vars

-----------------------------------------------------------------------------
(* Paginate on a page whose measures are not exact in binary: the usable     *)
(* height, the bottom threshold and a box's bottom are each rounded.         *)

\* a 297pt page with a top margin of 56.7pt and a bottom margin of 28.35pt
InexactGeometries ==
    {[Height |-> 29700, Top |-> 5670, Bottom |-> 2835]}

\* the positions and sizes of a tree as float64 holds them
AsFloats(t) ==
    [i \in DOMAIN t |-> [t[i] EXCEPT !.X = Fl(@), !.Y = Fl(@),
                                     !.Height = Fl(@)]]

InitInexact ==
    /\ pc = "start"
    /\ geom \in InexactGeometries
    /\ heap \in {AsFloats(t) : t \in SourceTrees(geom)}
    /\ src = heap
    /\ root = Len(heap)
    /\ contentBoxes = <<>>
    /\ pages = <<>>
    /\ callerLen = 0
    /\ pageBoxes = <<>>
    /\ todo = {}
    /\ processedBoxes = {}
    /\ tableRowPageMap = <<>>
    /\ addedBoxes = {}
    /\ contentHashes = {}
    /\ iter = 0
    /\ movedAny = FALSE
    /\ result = <<>>
    /\ InlIdle
    /\ TabIdle
    /\ BlkIdle
    /\ LenIdle
    /\ MsrIdle

SpecInexact == InitInexact /\ [][Next]_vars

\* what is left of the call: the phases to come, the pageBoxes keys to
\* distribute and the reflow passes the loop of line 579 may still make
Remaining ==
    CASE pc = "start"      -> 6
      [] pc = "assign"     -> 5
      [] pc = "rows"       -> 4
      [] pc = "distribute" -> 3
      [] pc = "reflow"     -> 2
      [] pc = "filter"     -> 1
      [] OTHER             -> 0

\* every step of Paginate brings its return nearer: no phase is entered
\* twice, every iteration of the range loop takes a key and every reflow
\* pass counts towards maxIterations
C25_StepsAdvance ==
    [][\/ Remaining' < Remaining
       \/ /\ Remaining' = Remaining
          /\ pc = "distribute" => Cardinality(todo') < Cardinality(todo)
          /\ pc = "reflow" => iter' > iter]_vars

\* C25: for every box tree and every page geometry with positive usable
\* height Paginate terminates: until it has returned it has a step to take,
\* the push-forward loop and the reflow loops of that step finish, and no
\* page that does not exist is indexed.
C25_PaginateTerminates ==
    pc # "done" =>
        /\ pc \in {"start", "assign", "rows", "distribute", "reflow", "filter"}
        /\ pc = "reflow" => iter < maxIterations


-----------------------------------------------------------------------------
(* Paginate on a page whose top and bottom margins leave no usable height.   *)
(* The trees are those laid out for the 14pt page with 2pt margins.          *)

InitNoRoom ==
    /\ pc = "start"
    /\ geom \in NoRoomGeometries
    /\ heap \in SourceTrees(CHOOSE g \in Geometries : TRUE)
    /\ src = heap
    /\ root = Len(heap)
    /\ contentBoxes = <<>>
    /\ pages = <<>>
    /\ callerLen = 0
    /\ pageBoxes = <<>>
    /\ todo = {}
    /\ processedBoxes = {}
    /\ tableRowPageMap = <<>>
    /\ addedBoxes = {}
    /\ contentHashes = {}
    /\ iter = 0
    /\ movedAny = FALSE
    /\ result = <<>>
    /\ InlIdle
    /\ TabIdle
    /\ BlkIdle
    /\ LenIdle
    /\ MsrIdle

SpecNoRoom == InitNoRoom /\ [][Next]_vars

\* C26: when the top and bottom margins together reach or exceed the page
\* height, Paginate still terminates and returns a page list: no loop that
\* adds pages runs without end, no page index is out of range, and until
\* the call has returned a step is left to take.
C26_TerminatesWithoutRoom ==
    /\ pc \notin {"oom", "panic"}
    /\ pc = "reflow" => iter < maxIterations

\* on a build whose int(+Inf) and int(NaN) are the smallest int, and for a
\* negative usable height on either build, the call returns
C26_ReturnsUnlessSaturating ==
    (geom.Build = "amd64" \/ UsableHeight(geom) < 0)
        => C25_PaginateTerminates

-----------------------------------------------------------------------------
(* reflowByBottomThreshold on its own: pages that hold a box reaching below  *)
(* the bottom margin.                                                        *)

\* the pages handed to reflowByBottomThreshold: on page 0 box 1 at y1, h1
\* high, with or without an inline child (box 2), and with or without a box
\* at the top margin (box 4); page 1 empty or holding box 3, h3 high, at the
\* top margin
ReflowInputs(g) ==
    {[heap |-> <<Box("block", 1, "div", "", 0, y1, h1,
                     IF kid THEN <<2>> ELSE <<>>),
                 Box("inline", 2, "span", "", 0, y1, 2 * Unit, <<>>),
                 Box("block", 3, "div", "", 0, g.Top, h3, <<>>),
                 Box("block", 4, "div", "", 0, g.Top, 5 * Unit, <<>>)>>,
      pages |-> <<(IF first THEN <<4>> ELSE <<>>) \o <<1>>,
                  IF h3 > 0 THEN <<3>> ELSE <<>>>>] :
        y1 \in {g.Top + 5 * Unit, g.Top + 6 * Unit, g.Top + 8 * Unit},
        h1 \in {3 * Unit, 5 * Unit},
        h3 \in {0, 5 * Unit, 8 * Unit},
        kid \in BOOLEAN, first \in BOOLEAN}

InitReflow ==
    /\ pc = "reflow"
    /\ geom \in Geometries
    /\ \E inp \in ReflowInputs(geom) :
          /\ heap = inp.heap
          /\ pages = inp.pages
    /\ src = heap
    /\ root = NilBox
    /\ contentBoxes = <<>>
    /\ callerLen = Len(pages)
    /\ pageBoxes = <<>>
    /\ todo = {}
    /\ processedBoxes = {}
    /\ tableRowPageMap = <<>>
    /\ addedBoxes = {}
    /\ contentHashes = {}
    /\ iter = 0
    /\ movedAny = FALSE
    /\ result = <<>>
    /\ InlIdle
    /\ TabIdle
    /\ BlkIdle
    /\ LenIdle
    /\ MsrIdle

NextReflow == Reflow

\* reflowByBottomThreshold, pass after pass
SpecReflow == InitReflow /\ [][NextReflow]_vars

\* box b, on a page, reaches below the bottom margin and is not taller than
\* the usable height
OverflowsPage(b) ==
    /\ heap[b].Height <= UsableHeight(geom)
    /\ heap[b].Y + heap[b].Height > geom.Height - geom.Bottom

\* where box b would stand on page p (0-based) of the pages as they are:
\* below the page's lowest box, or at the top margin of an empty or new page
LandingY(p) ==
    IF p < Len(pages) THEN MaxBottom(heap, pages[p + 1], geom.Top) ELSE geom.Top

FitsOn(b, p) == LandingY(p) + heap[b].Height <= geom.Height - geom.Bottom

\* the first page after page i on which b fits
FirstFit(b, i) ==
    CHOOSE p \in (i + 1)..(Len(pages) + 1) :
        /\ FitsOn(b, p)
        /\ \A q \in (i + 1)..(p - 1) : ~FitsOn(b, q)

-----------------------------------------------------------------------------
(* Inline layout of a paragraph: layoutParagraphInline                       *)
(*                                                                           *)
(* A text is a sequence of one-character strings.  A style is the record of  *)
(* the properties the layout reads; 0 and "" stand for a property that is    *)
(* not set.                                                                  *)

MaxTextLen == 3        \* characters of a text node

\* the characters of the explored texts: a letter, a punctuation mark of
\* line 1137, a space
Alphabet == {"a", ",", " "}

Texts == UNION {[1..n -> Alphabet] : n \in 0..MaxTextLen}

\* unicode.IsSpace
IsSpace(c) == c = " "

RECURSIVE TrimLeft(_)
\* strings.TrimLeftFunc(s, unicode.IsSpace)
TrimLeft(s) ==
    IF s # <<>> /\ IsSpace(Head(s)) THEN TrimLeft(Tail(s)) ELSE s

RECURSIVE TrimRight(_)
\* strings.TrimRightFunc(s, unicode.IsSpace)
TrimRight(s) ==
    IF s # <<>> /\ IsSpace(s[Len(s)]) THEN TrimRight(SubSeq(s, 1, Len(s) - 1))
    ELSE s

\* strings.TrimSpace
TrimSpace(s) == TrimRight(TrimLeft(s))

RECURSIVE normalizeFrom(_, _)
normalizeFrom(s, lastWasSpace) ==
    IF s = <<>> THEN <<>>
    ELSE IF IsSpace(Head(s))
         THEN (IF lastWasSpace THEN <<>> ELSE <<" ">>)
                  \o normalizeFrom(Tail(s), TRUE)
         ELSE <<Head(s)>> \o normalizeFrom(Tail(s), FALSE)

\* lines 1298-1317: runs of spaces become one space
normalizeWhitespace(s) == normalizeFrom(s, FALSE)

\* lines 985-996
BlockTags ==
    {"div", "p", "h1", "h2", "h3", "h4", "h5", "h6", "ul", "ol", "li",
     "table", "thead", "tbody", "tfoot", "tr", "td", "th", "header", "footer",
     "section", "article", "form", "fieldset", "hr", "blockquote", "address",
     "main", "nav", "aside"}

isBlockTag(tag) == tag \in BlockTags

\* style.ComputedStyle without a property
NoStyle == [fontSize |-> 0, lineHeight |-> 0, textAlign |-> ""]

\* html.Node: a text node, and an element with its computed style
TextNode(data) ==
    [Type |-> "text", Tag |-> "", Text |-> data,
     Style |-> NoStyle, Children |-> <<>>]

ElementNode(tag, st, children) ==
    [Type |-> "element", Tag |-> tag, Text |-> <<>>, Style |-> st,
     Children |-> children]

\* Engine.mergeStyles: the child's properties win
mergeStyles(parentStyle, childStyle) ==
    [fontSize |-> IF childStyle.fontSize # 0 THEN childStyle.fontSize
                  ELSE parentStyle.fontSize,
     lineHeight |-> IF childStyle.lineHeight # 0 THEN childStyle.lineHeight
                    ELSE parentStyle.lineHeight,
     textAlign |-> IF childStyle.textAlign # "" THEN childStyle.textAlign
                   ELSE parentStyle.textAlign]

RECURSIVE collectInlineRuns(_, _, _, _)
\* lines 1179-1240, for the children ch of a node from the k-th on.  The
\* siblings are text and element nodes, so a text node is the first (last)
\* node exactly when it has no previous (next) sibling.  inherited already
\* holds the style of the text's parent.
collectInlineRuns(ch, k, inherited, out) ==
    IF k > Len(ch) THEN out
    ELSE LET c == ch[k]
             txt == normalizeWhitespace(c.Text)
             left == IF k = 1 THEN TrimLeft(txt) ELSE txt
             trimmed == IF k = Len(ch) THEN TrimRight(left) ELSE left
             eff == [inherited EXCEPT
                        !.fontSize = IF @ = 0 THEN 16 * Unit ELSE @]
         IN  IF c.Type = "text"
             THEN collectInlineRuns(ch, k + 1, inherited,
                      IF c.Text = <<>> \/ trimmed = <<>> THEN out
                      ELSE Append(out, [text |-> trimmed, style |-> eff]))
             ELSE IF isBlockTag(c.Tag)
             THEN collectInlineRuns(ch, k + 1, inherited, out)
             ELSE collectInlineRuns(ch, k + 1, inherited,
                      collectInlineRuns(c.Children, 1,
                                        mergeStyles(inherited, c.Style), out))

RECURSIVE normalizeRunsFrom(_, _)
normalizeRunsFrom(rs, i) ==
    IF i > Len(rs) THEN <<>>
    ELSE LET run == rs[i]
             currentEndsWithSpace ==
                 Len(run.text) > 0 /\ IsSpace(run.text[Len(run.text)])
             nextStartsWithSpace ==
                 Len(rs[i + 1].text) > 0 /\ IsSpace(rs[i + 1].text[1])
             spaceRun == [text |-> <<" ">>, style |-> run.style]
         IN  <<run>>
             \o (IF /\ i < Len(rs)
                    /\ ~currentEndsWithSpace /\ ~nextStartsWithSpace
                    /\ Len(run.text) > 0 /\ Len(rs[i + 1].text) > 0
                 THEN <<spaceRun>> ELSE <<>>)
             \o normalizeRunsFrom(rs, i + 1)

\* lines 1321-1347: a run holding one space between two runs that do not
\* meet at a space
normalizeInlineRuns(rs) == IF Len(rs) <= 1 THEN rs ELSE normalizeRunsFrom(rs, 1)

RECURSIVE splitFrom(_, _, _, _)
\* the loop of lines 1253-1280; curIsSpace is "nil" before the first rune
splitFrom(s, cur, curIsSpace, tokens) ==
    IF s = <<>> THEN (IF Len(cur) > 0 THEN Append(tokens, cur) ELSE tokens)
    ELSE LET r == Head(s)
             isSp == IF IsSpace(r) THEN "space" ELSE "word"
             was == IF curIsSpace = "nil" THEN isSp ELSE curIsSpace
         IN  IF was # isSp
             THEN splitFrom(Tail(s), <<IF IsSpace(r) THEN " " ELSE r>>, isSp,
                            IF Len(cur) > 0 THEN Append(tokens, cur)
                            ELSE tokens)
             ELSE IF IsSpace(r)
             THEN splitFrom(Tail(s), IF Len(cur) = 0 THEN <<" ">> ELSE cur,
                            was, tokens)
             ELSE splitFrom(Tail(s), Append(cur, r), was, tokens)

\* lines 1243-1285: the words of s and one space token between two words
splitTokens(s) ==
    IF TrimSpace(s) = <<>> THEN <<>>
    ELSE splitFrom(TrimSpace(s), <<>>, "nil", <<>>)

\* lines 1287-1294
isAllSpace(s) == \A k \in 1..Len(s) : IsSpace(s[k])

\* lines 175-185, for the Courier core font the explored paragraphs use:
\* every glyph is 600/1000 of the font size wide
measureTextWidth(text, fontSize) ==
    IF text = <<>> \/ fontSize <= 0 THEN 0
    ELSE (Len(text) * 600 * fontSize) \div 1000

\* lines 1022-1058: the tokens of one run
TokensOfRun(run) ==
    IF run.text = <<>> THEN <<>>
    ELSE
    LET fs == run.style.fontSize
        lh == IF run.style.lineHeight # 0 THEN run.style.lineHeight
              ELSE (12 * fs) \div 10
        tokens == splitTokens(run.text)
        tkn(t) ==
            LET isSpace == isAllSpace(t)
                text == IF isSpace THEN t ELSE TrimSpace(t)
            IN  [text |-> text, style |-> run.style,
                 width |-> IF isSpace THEN measureTextWidth(<<" ">>, fs)
                           ELSE measureTextWidth(text, fs),
                 isSpace |-> isSpace, drop |-> FALSE, fs |-> fs, lh |-> lh]
    IN  SelectSeq([k \in 1..Len(tokens) |-> tkn(tokens[k])],
                  LAMBDA t : t.text # <<>>)

RECURSIVE RawTokens(_)
\* lines 1021-1059: raw, the tokens of all runs
RawTokens(rs) ==
    IF rs = <<>> THEN <<>> ELSE TokensOfRun(Head(rs)) \o RawTokens(Tail(rs))

RECURSIVE SumWidth(_)
SumWidth(tokens) ==
    IF tokens = <<>> THEN 0 ELSE Head(tokens).width + SumWidth(Tail(tokens))

RECURSIVE MaxFs(_)
MaxFs(tokens) ==
    IF tokens = <<>> THEN 0 ELSE Max(Head(tokens).fs, MaxFs(Tail(tokens)))

RECURSIVE MaxLead(_)
MaxLead(tokens) ==
    IF tokens = <<>> THEN 0
    ELSE Max(Head(tokens).lh - Head(tokens).fs, MaxLead(Tail(tokens)))

\* layout.InlineBox as emitLine builds it
InlineBox(x, y, w, h, text, st) ==
    [kind |-> "inline", X |-> x, Y |-> y, Width |-> w, Height |-> h,
     Text |-> text, Style |-> st]

\* lines 1070-1124: emitLine, on st = [line, lineWidth, curY, maxAscent,
\* maxDescent, Children] for the container c
emitLine(st, c) ==
    IF Len(st.line) = 0 THEN st
    ELSE
    LET n == Len(st.line)
        marked == IF st.line[n].isSpace
                  THEN [st.line EXCEPT ![n].drop = TRUE] ELSE st.line
        kept == SelectSeq(marked, LAMBDA tk : ~tk.drop)
        ascent == MaxFs(kept)
        descent == MaxLead(kept)
        baselineY == st.curY + ascent
        maxWidth == c.Width
        startX == c.X + c.PaddingLeft + c.BorderLeft
        align == IF c.Style.textAlign = "" THEN "left" ELSE c.Style.textAlign
        offsetX == IF align \in {"right", "end"} /\ st.lineWidth < maxWidth
                   THEN maxWidth - st.lineWidth
                   ELSE IF align = "center" /\ st.lineWidth < maxWidth
                   THEN (maxWidth - st.lineWidth) \div 2
                   ELSE 0
        ib(k) == InlineBox(startX + offsetX + SumWidth(SubSeq(kept, 1, k - 1)),
                           baselineY - kept[k].fs, kept[k].width,
                           ascent + descent,
                           IF kept[k].isSpace THEN <<" ">> ELSE kept[k].text,
                           kept[k].style)
    IN  [line |-> <<>>, lineWidth |-> 0, curY |-> st.curY + ascent + descent,
         maxAscent |-> ascent, maxDescent |-> descent,
         Children |-> st.Children \o [k \in 1..Len(kept) |-> ib(k)]]

\* a line breaker that never finds the line full
OverflowsNever(width, more, maxWidth) == FALSE

\* lines 1142 and 1159: the line, width wide, cannot take more
Overflows(width, more, maxWidth) == width + more > maxWidth

\* the ASCII marks of line 1137
Punctuation == {",", ".", ";", ":", "!", "?", ")", "]", "}"}

\* the explored paragraphs: <p>t1<span>t2</span></p> in a parent box at
\* (50, 50), with the span's font-size, the span's line-height and the
\* paragraph's text-align set or not; a text node exists only when it has
\* characters
ParagraphWidths == {20 * Unit, 40 * Unit}
SpanFontSizes == {0, 8 * Unit, 24 * Unit}
TextAligns == {"", "center"}
\* the span's line-height: undeclared, or 10px (below every font size)
SpanLineHeights == {0, 10 * Unit}

Paragraphs ==
    {[Children |->
          (IF t1 = <<>> THEN <<>> ELSE <<TextNode(t1)>>)
          \o <<ElementNode("span", [NoStyle EXCEPT !.fontSize = fs,
                                                   !.lineHeight = lhs],
                           IF t2 = <<>> THEN <<>> ELSE <<TextNode(t2)>>)>>,
      Style |-> [NoStyle EXCEPT !.textAlign = al],
      X |-> 50 * Unit, Y |-> 50 * Unit, Width |-> w] :
     t1 \in Texts, t2 \in Texts, fs \in SpanFontSizes,
     lhs \in SpanLineHeights, al \in TextAligns,
     w \in ParagraphWidths}

\* part_005 lines 879-887: the BlockBox processNode creates for the <p>
ParagraphBox(p) ==
    [X |-> p.X, Y |-> p.Y, Width |-> p.Width, Height |-> 30 * Unit,
     PaddingLeft |-> 0, PaddingTop |-> 0, BorderLeft |-> 0, BorderTop |-> 0,
     Style |-> p.Style, Children |-> <<>>]

InitInline ==
    /\ PagIdle
    /\ TabIdle
    /\ BlkIdle
    /\ LenIdle
    /\ MsrIdle
    /\ ipc = "start"
    /\ para \in Paragraphs
    /\ container = ParagraphBox(para)
    /\ runs = <<>>
    /\ raw = <<>>
    /\ tokI = 0
    /\ line = <<>>
    /\ lineWidth = 0
    /\ pendingSpace = FALSE
    /\ curY = 0
    /\ maxAscent = 0
    /\ maxDescent = 0

\* lines 1006-1009: collectInlineRuns, normalizeInlineRuns
CollectRuns ==
    /\ ipc = "start"
    /\ runs' = normalizeInlineRuns(
                   collectInlineRuns(para.Children, 1, para.Style, <<>>))
    /\ ipc' = "tokens"
    /\ UNCHANGED <<pagVars, tabVars, blkVars, lenVars, msrVars>>
    /\ UNCHANGED <<para, container, raw, tokI, line, lineWidth, pendingSpace,
                   curY, maxAscent, maxDescent>>

\* lines 1021-1068 and 1126: the tokens, and the state of the first line
Tokenize ==
    /\ ipc = "tokens"
    /\ raw' = RawTokens(runs)
    /\ curY' = container.Y + container.PaddingTop + container.BorderTop
    /\ line' = <<>>
    /\ lineWidth' = 0
    /\ maxAscent' = 0
    /\ maxDescent' = 0
    /\ pendingSpace' = FALSE
    /\ tokI' = 0
    /\ ipc' = "loop"
    /\ UNCHANGED <<pagVars, tabVars, blkVars, lenVars, msrVars>>
    /\ UNCHANGED <<para, container, runs>>

\* lines 1127-1165: one iteration of the token loop
LayoutToken ==
    /\ ipc = "loop"
    /\ tokI < Len(raw)
    /\ LET tk == raw[tokI + 1]
           st0 == [line |-> line, lineWidth |-> lineWidth, curY |-> curY,
                   maxAscent |-> maxAscent, maxDescent |-> maxDescent,
                   Children |-> container.Children]
           maxWidth == container.Width
           punct == tk.text[1] \in Punctuation
           spw == measureTextWidth(<<" ">>, tk.fs)
           \* lines 1142-1146
           breakAtSpace == /\ pendingSpace
                           /\ ~punct
                           /\ Overflows(lineWidth, spw + tk.width, maxWidth)
                           /\ Len(line) > 0
           \* lines 1147-1150
           spaced == IF pendingSpace /\ ~punct /\ Len(line) > 0
                     THEN [st0 EXCEPT
                              !.line = Append(@, [text |-> <<" ">>,
                                                  style |-> tk.style,
                                                  width |-> spw,
                                                  isSpace |-> TRUE,
                                                  drop |-> FALSE,
                                                  fs |-> tk.fs, lh |-> tk.lh]),
                              !.lineWidth = @ + spw]
                     ELSE st0
           \* lines 1155-1161
           broken == IF tk.width > maxWidth
                     THEN (IF Len(spaced.line) > 0
                           THEN emitLine(spaced, container) ELSE spaced)
                     ELSE IF /\ Overflows(spaced.lineWidth, tk.width, maxWidth)
                             /\ Len(spaced.line) > 0
                     THEN emitLine(spaced, container)
                     ELSE spaced
           \* lines 1163-1164
           placed == [broken EXCEPT !.line = Append(@, tk),
                                    !.lineWidth = @ + tk.width]
           st == IF tk.isSpace THEN st0
                 ELSE IF breakAtSpace THEN emitLine(st0, container)
                 ELSE placed
       IN  /\ line' = st.line
           /\ lineWidth' = st.lineWidth
           /\ curY' = st.curY
           /\ maxAscent' = st.maxAscent
           /\ maxDescent' = st.maxDescent
           /\ container' = [container EXCEPT !.Children = st.Children]
           /\ pendingSpace' = tk.isSpace
    /\ tokI' = tokI + 1
    /\ UNCHANGED <<pagVars, tabVars, blkVars, lenVars, msrVars>>
    /\ UNCHANGED <<ipc, para, runs, raw>>

\* lines 1166-1175: the last line, and the container's height
FinishParagraph ==
    /\ ipc = "loop"
    /\ tokI = Len(raw)
    /\ LET st0 == [line |-> line, lineWidth |-> lineWidth, curY |-> curY,
                   maxAscent |-> maxAscent, maxDescent |-> maxDescent,
                   Children |-> container.Children]
           st == IF Len(line) > 0 THEN emitLine(st0, container) ELSE st0
           n == Len(st.Children)
       IN  /\ line' = st.line
           /\ lineWidth' = st.lineWidth
           /\ curY' = st.curY
           /\ maxAscent' = st.maxAscent
           /\ maxDescent' = st.maxDescent
           /\ container' =
                  [container EXCEPT
                      !.Children = st.Children,
                      !.Height = IF n > 0
                                 THEN (st.Children[n].Y + st.Children[n].Height)
                                          - container.Y
                                 ELSE 0]
    /\ ipc' = "done"
    /\ UNCHANGED <<pagVars, tabVars, blkVars, lenVars, msrVars>>
    /\ UNCHANGED <<para, runs, raw, tokI, pendingSpace>>

NextInline ==
    \/ CollectRuns
    \/ Tokenize
    \/ LayoutToken
    \/ FinishParagraph

SpecInline == InitInline /\ [][NextInline]_vars

-----------------------------------------------------------------------------
(* Properties of layoutParagraphInline *)

RECURSIVE WordTexts(_)
\* the texts of the word tokens (boxes) of a sequence, in order
WordTexts(s) ==
    IF s = <<>> THEN <<>>
    ELSE IF Head(s).isSpace THEN WordTexts(Tail(s))
    ELSE <<Head(s).text>> \o WordTexts(Tail(s))

\* the emitted boxes as tokens: a space box is the one whose text is " "
EmittedTokens ==
    [k \in 1..Len(container.Children) |->
        [text |-> container.Children[k].Text,
         isSpace |-> container.Children[k].Text = <<" ">>]]

\* C7 (as claimed): when layoutParagraphInline has returned, the word boxes
\* of the container are the word tokens of the paragraph's runs, one box per
\* token, in source order.
C7_OneBoxPerWord ==
    ipc = "done" => WordTexts(EmittedTokens) = WordTexts(raw)

\* the boxes the step appends to the container: the line it emits
NewBoxes ==
    SubSeq(container'.Children, Len(container.Children) + 1,
           Len(container'.Children))

\* the step emits a line
EmitsLine == Len(container'.Children) > Len(container.Children)

\* font size and line height of an emitted box, read as lines 1025-1032 do
FontSizeOf(box) == box.Style.fontSize
LineHeightOf(box) ==
    IF box.Style.lineHeight # 0 THEN box.Style.lineHeight
    ELSE (12 * box.Style.fontSize) \div 10

\* the greatest member of a non-empty set of integers
Greatest(S) == CHOOSE m \in S : \A x \in S : x <= m

LineMaxFontSize(boxes) == Greatest({FontSizeOf(boxes[k]) : k \in DOMAIN boxes})
LineMaxLead(boxes) ==
    Greatest({LineHeightOf(boxes[k]) - FontSizeOf(boxes[k]) : k \in DOMAIN boxes})

\* the content top of the paragraph's container
ContentTop == container.Y + container.PaddingTop + container.BorderTop

\* C12 (as claimed): for each emitted line, with lineTop the running top,
\* every token box has Y = lineTop + max font-size - own font-size, the next
\* line's top is lineTop + max(font-size) + max(line-height - font-size) over
\* the line's tokens, and the first line's top is the container's content
\* top.
C12_LineGeometry ==
    [][EmitsLine =>
          /\ \A k \in DOMAIN NewBoxes :
                 NewBoxes[k].Y = curY + LineMaxFontSize(NewBoxes)
                                      - FontSizeOf(NewBoxes[k])
          /\ curY' = curY + LineMaxFontSize(NewBoxes) + LineMaxLead(NewBoxes)
          /\ (container.Children = <<>> => curY = ContentTop)]_vars

RECURSIVE BoxWidths(_)
\* total width of a sequence of emitted boxes
BoxWidths(boxes) ==
    IF boxes = <<>> THEN 0 ELSE Head(boxes).Width + BoxWidths(Tail(boxes))

IsSpaceBox(box) == box.Text = <<" ">>

\* C15: every emitted line has total token width (words plus committed
\* spaces) at most the container's available width, unless it is a single
\* word that is itself wider; no emitted line begins or ends with a space box.
C15_LinesFit ==
    [][EmitsLine =>
          /\ \/ BoxWidths(NewBoxes) <= container.Width
             \/ /\ Len(NewBoxes) = 1
                /\ ~IsSpaceBox(NewBoxes[1])
                /\ NewBoxes[1].Width > container.Width
          /\ ~IsSpaceBox(NewBoxes[1])
          /\ ~IsSpaceBox(NewBoxes[Len(NewBoxes)])]_vars

\* the baseline of an emitted box: emitLine put its top at baseline - fs
BaselineOf(box) == box.Y + FontSizeOf(box)

\* C15's case: the paragraph wrapped, and a line holds a committed space
C15_Witness ==
    /\ ipc = "done"
    /\ \E j, k \in DOMAIN container.Children :
           BaselineOf(container.Children[j]) # BaselineOf(container.Children[k])
    /\ \E k \in DOMAIN container.Children : IsSpaceBox(container.Children[k])

\* C16 (as claimed): when layoutParagraphInline has returned, the container's
\* height is the bottom of the last emitted line (its top plus its line
\* height, where curY stands after the last emitLine) minus the container's
\* top, whatever the font sizes on that line; with no token it is 0.
C16_ContainerHeight ==
    ipc = "done" =>
        container.Height = IF container.Children = <<>> THEN 0
                           ELSE curY - container.Y

-----------------------------------------------------------------------------
(* Layout of table rows: processNode on a <tr>, layoutTableRow,              *)
(* computeTableColumnWidths                                                  *)
(*                                                                           *)
(* A CSS value is a number with its unit suffix; NoValue is the empty        *)
(* string of a property that is not set.  Quotients that are not a whole     *)
(* number of hundredths are truncated.                                       *)

MaxCells == 2          \* cells of a row
MaxRows == 2           \* rows of a table that are laid out

NoValue == [n |-> 0, unit |-> "none"]
Px(n) == [n |-> n, unit |-> "px"]
Pct(n) == [n |-> n, unit |-> "%"]

\* part_003 lines 199-241.  A value in rem also ends in "em": line 220 takes
\* it, and its number with the "r" left on it does not parse.
parseLength(value, containerSize, defaultValue) ==
    IF value = NoValue THEN defaultValue
    ELSE IF value.unit = "%" THEN (containerSize * value.n) \div 100
    ELSE IF value.unit = "px" THEN value.n * Unit
    ELSE IF value.unit = "em" THEN value.n * 16 * Unit
    ELSE IF value.unit = "rem" THEN defaultValue
    ELSE IF value.unit = "" THEN value.n * Unit
    ELSE defaultValue

\* the properties layoutTableRow reads from a style
NoGap == [borderSpacing |-> NoValue, gap |-> NoValue, columnGap |-> NoValue]

\* lines 250-267: extractGap
extractGap(st, rowWidth) ==
    IF st.borderSpacing # NoValue
    THEN [v |-> parseLength(st.borderSpacing, rowWidth, 0), ok |-> TRUE]
    ELSE IF st.gap # NoValue
    THEN [v |-> parseLength(st.gap, rowWidth, 0), ok |-> TRUE]
    ELSE IF st.columnGap # NoValue
    THEN [v |-> parseLength(st.columnGap, rowWidth, 0), ok |-> TRUE]
    ELSE [v |-> 0, ok |-> FALSE]

\* lines 248-285: the row's own style first, then the table's
cellGapX(rowStyle, tableStyle, rowWidth) ==
    LET own == extractGap(rowStyle, rowWidth)
        tab == extractGap(tableStyle, rowWidth)
        v == IF own.ok THEN own.v ELSE IF tab.ok THEN tab.v ELSE 0
    IN  IF v < 0 THEN 0 ELSE v

\* a <td> or <th> element: its style's width and its colspan attribute
\* (0: no attribute)
CellNode(tag, width, colspan) ==
    [Tag |-> tag, Style |-> [width |-> width], Colspan |-> colspan]

\* lines 74-79 and 312-321
SpanOf(cell) == IF cell.Colspan > 1 THEN cell.Colspan ELSE 1

\* lines 67-107: scanTR, for cells whose width comes from the style
scanTR(cells, totalWidth) ==
    [k \in 1..Len(cells) |->
        LET wv == IF cells[k].Style.width # NoValue
                  THEN parseLength(cells[k].Style.width, totalWidth, 0)
                  ELSE 0
        IN  [width |-> wv, span |-> SpanOf(cells[k]), hasWidth |-> wv > 0]]

RECURSIVE ColCount(_)
ColCount(specs) ==
    IF specs = <<>> THEN 0 ELSE Head(specs).span + ColCount(Tail(specs))

\* lines 109-125, with the current row's own cells always preferred
ColumnSpecsOwnRow(head, cells, totalWidth) == scanTR(cells, totalWidth)

\* lines 109-125: the first <thead> row that has cells, else the current row
ColumnSpecs(head, cells, totalWidth) ==
    IF ColCount(scanTR(head, totalWidth)) > 0 THEN scanTR(head, totalWidth)
    ELSE scanTR(cells, totalWidth)

RECURSIVE DeclaredWidthsUndivided(_)
\* a spanning cell's whole width given to each column it covers
DeclaredWidthsUndivided(specs) ==
    IF specs = <<>> THEN <<>>
    ELSE LET sp == Head(specs)
             share == IF sp.hasWidth THEN sp.width ELSE 0
         IN  [j \in 1..sp.span |-> share]
             \o DeclaredWidthsUndivided(Tail(specs))

RECURSIVE DeclaredWidths(_)
\* lines 133-153: colWidths after the declared widths are assigned
DeclaredWidths(specs) ==
    IF specs = <<>> THEN <<>>
    ELSE LET sp == Head(specs)
             share == IF sp.hasWidth THEN sp.width \div sp.span ELSE 0
         IN  [j \in 1..sp.span |-> share] \o DeclaredWidths(Tail(specs))

\* lines 39-167, for a row inside a table
computeTableColumnWidths(head, cells, totalWidth, gap) ==
    LET specs == ColumnSpecs(head, cells, totalWidth)
        cols == ColCount(specs)
        effective == totalWidth - gap * Max(0, cols - 1)
        declared == DeclaredWidths(specs)
        remaining == Max(0, effective - Sum(declared))
        zeroCount == Cardinality({i \in 1..cols : declared[i] = 0})
    IN  IF cols = 0 THEN <<>>
        ELSE [i \in 1..cols |->
                 IF declared[i] = 0 THEN remaining \div zeroCount
                 ELSE declared[i]]

\* only the children of the block moved, their own descendants left behind
shiftDescendantsShallow(children, dx, dy) ==
    [k \in 1..Len(children) |->
        [children[k] EXCEPT !.X = @ + dx, !.Y = @ + dy]]

RECURSIVE shiftDescendants(_, _, _)
\* lines 376-394, on the children of the block: every child is moved; a
\* block child's descendants are moved with it; of an inline child's
\* children, the block ones take their descendants along
shiftDescendants(children, dx, dy) ==
    [k \in 1..Len(children) |->
        LET ch == [children[k] EXCEPT !.X = @ + dx, !.Y = @ + dy]
        IN  IF ch.kind = "block"
            THEN [ch EXCEPT !.Children = shiftDescendants(@, dx, dy)]
            ELSE IF ch.kind = "inline"
            THEN [ch EXCEPT !.Children =
                     [j \in 1..Len(@) |->
                         LET gc == [@[j] EXCEPT !.X = @ + dx, !.Y = @ + dy]
                         IN  IF gc.kind = "block"
                             THEN [gc EXCEPT !.Children =
                                      shiftDescendants(@, dx, dy)]
                             ELSE gc]]
            ELSE ch]

\* processNode lines 744-773: the InlineBox of a text node, the first child
\* of parentBox, with the default font size 16 (line height 1.25 * 16)
TextBox(parentBox) ==
    [kind |-> "inline",
     X |-> parentBox.X + parentBox.PaddingLeft + parentBox.BorderLeft,
     Y |-> parentBox.Y + parentBox.PaddingTop + parentBox.BorderTop,
     Width |-> Max(0, parentBox.Width - parentBox.PaddingLeft
                          - parentBox.PaddingRight - parentBox.BorderLeft
                          - parentBox.BorderRight),
     Height |-> (125 * 16 * Unit) \div 100,
     Children |-> <<>>]

\* processNode lines 873-890: the BlockBox of a block element, below the
\* last child of parentBox
NewBlock(node, st, parentBox) ==
    [kind |-> "block", Node |-> node, Style |-> st,
     X |-> parentBox.X,
     Y |-> IF Len(parentBox.Children) > 0
           THEN parentBox.Children[Len(parentBox.Children)].Y
                    + parentBox.Children[Len(parentBox.Children)].Height
           ELSE parentBox.Y,
     Width |-> parentBox.Width, Height |-> 30 * Unit,
     PaddingLeft |-> 0, PaddingRight |-> 0, PaddingTop |-> 0,
     BorderLeft |-> 0, BorderRight |-> 0, BorderTop |-> 0,
     Children |-> <<>>]

RECURSIVE ProcessCells(_, _, _)
\* processNode on the cells of a <tr> from the k-th on, each holding one
\* text node: lines 873-890, 930-931, 942-951 for the cell, 960-966 for the
\* row
ProcessCells(cells, k, rowBox) ==
    IF k > Len(cells) THEN rowBox
    ELSE LET cell == NewBlock(cells[k], cells[k].Style, rowBox)
             text == TextBox(cell)
             done == [cell EXCEPT !.Children = <<text>>,
                                  !.Height = text.Y + text.Height - cell.Y]
             grown == IF rowBox.Y + rowBox.Height < done.Y + done.Height
                      THEN done.Y + done.Height - rowBox.Y
                      ELSE rowBox.Height
         IN  ProcessCells(cells, k + 1,
                          [rowBox EXCEPT !.Children = Append(@, done),
                                         !.Height = grown])

RECURSIVE PlaceCells(_, _, _, _, _, _, _)
\* lines 311-368: the loop over the cells, from the k-th on; colIdx counts
\* from 0 as in the source
PlaceCells(cells, k, colIdx, colX, colWidths, rowY, gap) ==
    IF k > Len(cells) THEN <<>>
    ELSE
    LET cell == cells[k]
        span == SpanOf(cell.Node)
        col == IF colIdx >= Len(colX) THEN Len(colX) - 1 ELSE colIdx
        covered == {j \in 0..(span - 1) : col + j < Len(colWidths)}
        w == Sum([j \in 1..Cardinality(covered) |-> colWidths[col + j]])
                 + (IF span > 1 THEN gap * (span - 1) ELSE 0)
        newX == colX[col + 1]
        moved == shiftDescendants(cell.Children, newX - cell.X, rowY - cell.Y)
        n == Len(moved)
        calcH == IF n > 0
                 THEN Max(20 * Unit, moved[n].Y + moved[n].Height - rowY)
                 ELSE IF cell.Height = 0 THEN 20 * Unit ELSE cell.Height
    IN  <<[cell EXCEPT !.X = newX, !.Y = rowY, !.Width = w,
                       !.Children = moved, !.Height = calcH]>>
        \o PlaceCells(cells, k + 1, col + span, colX, colWidths, rowY, gap)

RECURSIVE MaxHeight(_)
MaxHeight(boxes) ==
    IF boxes = <<>> THEN 0
    ELSE Max(Head(boxes).Height, MaxHeight(Tail(boxes)))

\* lines 227-373, for a row all of whose children are <td>/<th> boxes, in
\* the table tbl
layoutTableRow(rowBox, tbl) ==
    IF Len(rowBox.Children) = 0 THEN rowBox
    ELSE
    LET totalWidth == rowBox.Width
        gap == cellGapX(rowBox.Style, tbl.Style, rowBox.Width)
        computed == computeTableColumnWidths(tbl.Head, rowBox.Node.Cells,
                                             totalWidth, gap)
        colCount == IF computed = <<>> THEN Len(rowBox.Children)
                    ELSE Len(computed)
        colWidths == IF computed = <<>>
                     THEN [i \in 1..colCount |->
                              (totalWidth - gap * Max(0, colCount - 1))
                                  \div colCount]
                     ELSE computed
        colX == [i \in 1..colCount |->
                    rowBox.X + Sum(SubSeq(colWidths, 1, i - 1)) + gap * (i - 1)]
        placed == PlaceCells(rowBox.Children, 1, 0, colX, colWidths, rowBox.Y,
                             gap)
    IN  [rowBox EXCEPT !.Children = placed,
                       !.Height = Max(20 * Unit, MaxHeight(placed))]

\* the explored tables: 400 wide at (50, 50); a <thead> row of up to
\* MaxCells <th> cells (none: no <thead>), and body rows of up to MaxCells
\* <td> cells; every cell may declare a width and a colspan; the table and
\* the rows may set a gap
TableGapStyles ==
    {NoGap, [NoGap EXCEPT !.borderSpacing = Px(10)],
     [NoGap EXCEPT !.gap = Px(20), !.columnGap = Px(30)]}
RowGapStyles == {NoGap, [NoGap EXCEPT !.columnGap = Px(20)]}
HeadCellWidths == {NoValue, Pct(60), Pct(40)}
BodyCellWidths == {NoValue, Px(100)}
Colspans == {0, 2}

HeadRows ==
    UNION {[1..n -> {CellNode("th", w, c) :
                        w \in HeadCellWidths, c \in Colspans}] :
           n \in 0..MaxCells}

BodyRows ==
    UNION {[1..n -> {CellNode("td", w, c) :
                        w \in BodyCellWidths, c \in Colspans}] :
           n \in 0..MaxCells}

Tables ==
    {[Style |-> st, Head |-> h, X |-> 50 * Unit, Y |-> 50 * Unit,
      Width |-> 400 * Unit, Children |-> <<>>] :
     st \in TableGapStyles, h \in HeadRows}

InitTable ==
    /\ PagIdle
    /\ InlIdle
    /\ BlkIdle
    /\ LenIdle
    /\ MsrIdle
    /\ tpc = "ready"
    /\ table \in Tables
    /\ rowIdx = 0
    /\ rowTop = table.Y
    /\ row = <<>>
    /\ rowGap = 0
    /\ rowColWidths = <<>>

\* processNode on the next <tr> and on its cells, up to the call of
\* layoutTableRow at line 935.  The first row of a table with a <thead> is
\* the <thead> row.  The row's parent (the <thead> or <tbody> box) is as
\* wide as the table, and its children so far end at rowTop.
ProcessRow ==
    /\ tpc = "ready"
    /\ rowIdx < MaxRows
    /\ \E st \in RowGapStyles :
       \E cells \in (IF rowIdx = 0 /\ table.Head # <<>> THEN {table.Head}
                     ELSE BodyRows) :
          LET node == [Tag |-> "tr", Style |-> st, Cells |-> cells]
              parentBox == [table EXCEPT !.Y = rowTop]
          IN  row' = ProcessCells(cells, 1, NewBlock(node, st, parentBox))
    /\ tpc' = "built"
    /\ UNCHANGED <<pagVars, inlVars, blkVars, lenVars, msrVars>>
    /\ UNCHANGED <<table, rowIdx, rowTop, rowGap, rowColWidths>>

\* line 935: layoutTableRow on the row
LayoutRow ==
    /\ tpc = "built"
    /\ row' = layoutTableRow(row, table)
    /\ rowGap' = IF Len(row.Children) = 0 THEN 0
                 ELSE cellGapX(row.Style, table.Style, row.Width)
    /\ rowColWidths' =
           IF Len(row.Children) = 0 THEN <<>>
           ELSE computeTableColumnWidths(
                    table.Head, row.Node.Cells, row.Width,
                    cellGapX(row.Style, table.Style, row.Width))
    /\ tpc' = "laid"
    /\ UNCHANGED <<pagVars, inlVars, blkVars, lenVars, msrVars>>
    /\ UNCHANGED <<table, rowIdx, rowTop>>

\* lines 930-931 in the row's parent: processNode has returned, the next
\* child of the parent is a row below this one
NextRow ==
    /\ tpc = "laid"
    /\ rowIdx' = rowIdx + 1
    /\ rowTop' = row.Y + row.Height
    /\ row' = <<>>
    /\ rowGap' = 0
    /\ rowColWidths' = <<>>
    /\ tpc' = "ready"
    /\ UNCHANGED <<pagVars, inlVars, blkVars, lenVars, msrVars>>
    /\ UNCHANGED table

NextTable ==
    \/ ProcessRow
    \/ LayoutRow
    \/ NextRow

SpecTable == InitTable /\ [][NextTable]_vars

-----------------------------------------------------------------------------
(* Properties of layoutTableRow *)

\* a row has been laid out
RowLaidOut == tpc = "laid"

\* every cell of the <thead> row declares a width
HeadDeclaresWidths ==
    /\ table.Head # <<>>
    /\ \A k \in 1..Len(table.Head) : table.Head[k].Style.width # NoValue

RECURSIVE HeadColumns(_, _)
\* the column widths the <thead> cells declare, resolved against the width
\* rowWidth: a cell's width, divided evenly over the columns it spans
HeadColumns(cells, rowWidth) ==
    IF cells = <<>> THEN <<>>
    ELSE LET span == SpanOf(Head(cells))
             wv == parseLength(Head(cells).Style.width, rowWidth, 0)
         IN  [j \in 1..span |-> wv \div span]
             \o HeadColumns(Tail(cells), rowWidth)

\* the 0-based column at which the k-th cell of the row starts; a cell
\* beyond the last column is put on the last column
RECURSIVE StartColumn(_, _, _)
StartColumn(cells, k, cols) ==
    IF k = 1 THEN 0
    ELSE Min(StartColumn(cells, k - 1, cols), cols - 1)
             + SpanOf(cells[k - 1].Node)

\* C8: when the <thead> row declares its cells' widths, every cell of every
\* laid out row is as wide as the <thead> columns it covers (plus the gaps
\* between them), whatever widths the row's own cells declare.
C8_HeadWidthsWin ==
    (RowLaidOut /\ HeadDeclaresWidths) =>
        LET cols == HeadColumns(table.Head, row.Width)
            gap == cellGapX(row.Style, table.Style, row.Width)
        IN  \A k \in 1..Len(row.Children) :
               LET cell == row.Children[k]
                   span == SpanOf(cell.Node)
                   c == Min(StartColumn(row.Children, k, Len(cols)),
                            Len(cols) - 1)
                   last == Min(c + span, Len(cols))
               IN  cell.Width = Sum(SubSeq(cols, c + 1, last))
                                    + gap * (span - 1)

\* C8 witness: the <thead> declares 60% and 40%, and a body row whose two
\* cells declare 100px each has been laid out with cells 240 and 160 wide
C8_Witness ==
    /\ RowLaidOut
    /\ rowIdx > 0
    /\ table.Head = <<CellNode("th", Pct(60), 0), CellNode("th", Pct(40), 0)>>
    /\ row.Node.Cells = <<CellNode("td", Px(100), 0),
                          CellNode("td", Px(100), 0)>>
    /\ row.Children[1].Width = 240 * Unit
    /\ row.Children[2].Width = 160 * Unit
\* the cells whose widths and colspans decide the columns of the row being
\* laid out: those of the <thead> row when it has cells, else the row's own
DecidingCells ==
    IF table.Head # <<>> THEN table.Head ELSE row.Node.Cells

RECURSIVE ColumnDeclarations(_, _)
\* column by column: whether the cell covering it declares a width, and the
\* part w/k of that width w that falls on the column when the cell spans k
ColumnDeclarations(cells, rowWidth) ==
    IF cells = <<>> THEN <<>>
    ELSE LET cell == Head(cells)
             k == SpanOf(cell)
             w == parseLength(cell.Style.width, rowWidth, 0)
         IN  [j \in 1..k |-> [declared |-> cell.Style.width # NoValue,
                              width |-> IF cell.Style.width # NoValue
                                        THEN w \div k ELSE 0]]
             \o ColumnDeclarations(Tail(cells), rowWidth)

\* the column widths of the claim, for the gap given
ColumnsFor(cells, rowWidth, gap) ==
    LET d == ColumnDeclarations(cells, rowWidth)
        cols == Len(d)
        undeclared == {i \in 1..cols : ~d[i].declared}
        rest == Max(0, rowWidth - gap * (cols - 1)
                           - Sum([i \in 1..cols |-> d[i].width]))
    IN  [i \in 1..cols |->
            IF d[i].declared THEN d[i].width
            ELSE rest \div Cardinality(undeclared)]

RECURSIVE FirstSet(_)
\* the first value of the sequence that is set
FirstSet(values) ==
    IF values = <<>> THEN NoValue
    ELSE IF Head(values) # NoValue THEN Head(values)
    ELSE FirstSet(Tail(values))

\* the length of a gap value; 0 when none is set
GapLength(value, rowWidth) ==
    IF value = NoValue THEN 0 ELSE Max(0, parseLength(value, rowWidth, 0))

\* the gap by property: border-spacing where one is set, else gap, else
\* column-gap, of the row or of its table
GapByProperty ==
    GapLength(FirstSet(<<row.Style.borderSpacing, table.Style.borderSpacing,
                         row.Style.gap, table.Style.gap,
                         row.Style.columnGap, table.Style.columnGap>>),
              row.Width)

\* the gap by element: the row's own border-spacing, gap or column-gap when
\* it sets one, else the table's
GapByElement ==
    GapLength(FirstSet(<<row.Style.borderSpacing, row.Style.gap,
                         row.Style.columnGap, table.Style.borderSpacing,
                         table.Style.gap, table.Style.columnGap>>),
              row.Width)

\* a row with cells has been laid out
CellsLaidOut == RowLaidOut /\ row.Children # <<>>

-----------------------------------------------------------------------------
(* Block layout: the children processNode stacks inside a block, and         *)
(* BlockBox.Layout over the tree it built.                                    *)
(*                                                                           *)
(* A node is a record [type, tag, style, Children]; a box keeps its node,    *)
(* the style layout computed for it, its geometry, its edges and its         *)
(* children as nested records.                                               *)

\* children of the explored <body>
MaxKids == 2

\* the properties of a style that the block layout reads
NoBoxStyle ==
    [height |-> NoValue, marginTop |-> NoValue, paddingTop |-> NoValue,
     width |-> NoValue, display |-> ""]

BoxStyles ==
    [height : {NoValue, Px(10)}, marginTop : {NoValue, Px(5)},
     paddingTop : {NoValue, Px(5)}, width : {NoValue, Px(100)},
     display : {""}]

\* values of the display property; "": the property is not set
Displays == {"", "block", "flex", "grid", "inline", "inline-block", "contents"}

\* a style that sets display only
DisplayStyle(d) == [NoBoxStyle EXCEPT !.display = d]

\* part_005 lines 969-982, over the properties above
mergeBoxStyles(parentStyle, childStyle) ==
    [k \in DOMAIN NoBoxStyle |->
        IF childStyle[k] # NoBoxStyle[k] THEN childStyle[k] ELSE parentStyle[k]]

HtmlText == [type |-> "text", tag |-> "", style |-> NoBoxStyle, Children |-> <<>>]
HtmlElement(tag, st, children) ==
    [type |-> "element", tag |-> tag, style |-> st, Children |-> children]

\* the nodes below <body>: text, <img>, <span> and <div>, a <div> holding
\* text and an inner <div>; a <div> or <span> that sets display, holding a
\* <div> or a <span>
LeafDiv == HtmlElement("div", NoBoxStyle, <<>>)
KidNodes ==
    {HtmlText, HtmlElement("img", NoBoxStyle, <<>>)}
    \cup {HtmlElement("span", NoBoxStyle, c) : c \in {<<>>, <<HtmlText>>}}
    \cup {HtmlElement("div", st, c) :
            st \in BoxStyles,
            c \in {<<>>, <<HtmlText>>, <<LeafDiv>>, <<HtmlText, LeafDiv>>}}
    \cup {HtmlElement(tag, DisplayStyle(d), c) :
            tag \in {"div", "span"}, d \in Displays \ {""},
            c \in {<<>>, <<LeafDiv>>, <<HtmlElement("span", NoBoxStyle, <<>>)>>,
                   <<HtmlElement("span", DisplayStyle("inline"), <<>>)>>}}

BlockDocs ==
    {HtmlElement("body", NoBoxStyle, kids) :
        kids \in UNION {[1..n -> KidNodes] : n \in 0..MaxKids}}

\* a box of any of the three kinds, its edges not yet parsed
LayoutBox(kind, node, st, x, y, w, h, text) ==
    [kind |-> kind, Node |-> node, Style |-> st, X |-> x, Y |-> y,
     Width |-> w, Height |-> h, Text |-> text,
     MarginTop |-> 0, MarginBottom |-> 0, MarginLeft |-> 0,
     PaddingTop |-> 0, PaddingBottom |-> 0, PaddingLeft |-> 0,
     PaddingRight |-> 0, BorderTop |-> 0, BorderBottom |-> 0,
     BorderLeft |-> 0, BorderRight |-> 0, Children |-> <<>>]

\* part_005 lines 544-553: the box of <body>
BodyBox(node) ==
    LayoutBox("block", node, node.style, 50 * Unit, 50 * Unit, 400 * Unit,
              700 * Unit, <<>>)

\* bottom of the last child of parentBox, or top when there is none
BelowLast(parentBox, top) ==
    IF Len(parentBox.Children) > 0
    THEN parentBox.Children[Len(parentBox.Children)].Y
             + parentBox.Children[Len(parentBox.Children)].Height
    ELSE top

\* part_005 lines 960-967: the parent grows to its last child's bottom
GrowToLastChild(parentBox) ==
    IF Len(parentBox.Children) = 0 THEN parentBox
    ELSE LET bottom == BelowLast(parentBox, 0)
         IN  IF parentBox.Y + parentBox.Height < bottom
             THEN [parentBox EXCEPT !.Height = bottom - parentBox.Y]
             ELSE parentBox

\* part_005 lines 1414-1430: ImageBox.Layout
ImageLayout(img, containingBlock) ==
    LET v == parseLength(img.Style.height, containingBlock.Width, 40 * Unit)
    IN  [img EXCEPT !.Width = 40 * Unit,
                    !.Height = IF img.Style.height # NoValue /\ v > 0
                               THEN v ELSE 40 * Unit]

\* part_005 lines 791-821: isBlock, from the tag and the display value of the
\* merged style
isBlock(tag, nodeStyle) ==
    IF nodeStyle.display \in {"block", "flex", "grid"} THEN TRUE
    ELSE IF nodeStyle.display \in {"inline", "inline-block"} THEN FALSE
    ELSE isBlockTag(tag)

RECURSIVE processNode(_, _, _)
RECURSIVE processChildren(_, _, _)
\* part_005 lines 635-968: the boxes of node appended to parentBox; parent is
\* node.Parent
processNode(node, parentBox, parent) ==
    LET parentStyle == parentBox.Node.style
    IN  IF node.type = "text"
        THEN \* lines 683-781
             LET effectiveStyle == mergeBoxStyles(parentStyle, parent.style)
                 childY == BelowLast(parentBox, parentBox.Y + parentBox.PaddingTop
                                                    + parentBox.BorderTop)
                 contentX == parentBox.X + parentBox.PaddingLeft
                                 + parentBox.BorderLeft
                 contentW == Max(0, parentBox.Width - parentBox.PaddingLeft
                                        - parentBox.PaddingRight
                                        - parentBox.BorderLeft
                                        - parentBox.BorderRight)
                 lineHeight == (125 * 16 * Unit) \div 100
             IN  [parentBox EXCEPT !.Children =
                     Append(@, LayoutBox("inline", node, effectiveStyle, contentX,
                                         childY, contentW, lineHeight, <<"x">>))]
        ELSE LET nodeStyle == mergeBoxStyles(parentStyle, node.style)
                 childY == BelowLast(parentBox, parentBox.Y)
             IN  IF node.tag = "img"
                 THEN \* lines 826-871
                      [parentBox EXCEPT !.Children =
                          Append(@, ImageLayout(
                                        LayoutBox("image", node, nodeStyle,
                                                  parentBox.X, childY, 0, 0, <<>>),
                                        parentBox))]
                 ELSE IF isBlock(node.tag, nodeStyle)
                 THEN \* lines 873-890, 935-957
                      LET blockBox == LayoutBox("block", node, nodeStyle,
                                                parentBox.X, childY,
                                                parentBox.Width, 30 * Unit, <<>>)
                          filled == processChildren(node.Children, blockBox, node)
                          sized == [filled EXCEPT !.Height =
                                       IF Len(filled.Children) > 0
                                       THEN BelowLast(filled, 0) - filled.Y
                                       ELSE 20 * Unit]
                      IN  GrowToLastChild(
                              [parentBox EXCEPT !.Children = Append(@, sized)])
                 ELSE \* lines 905-935: the children go to parentBox
                      LET inlineBox == LayoutBox("inline", node, nodeStyle,
                                                 parentBox.X, childY,
                                                 parentBox.Width, 20 * Unit, <<>>)
                      IN  GrowToLastChild(
                              processChildren(
                                  node.Children,
                                  [parentBox EXCEPT !.Children = Append(@, inlineBox)],
                                  node))

\* lines 935-937: the loop over node's children
processChildren(nodes, parentBox, parent) ==
    IF nodes = <<>> THEN parentBox
    ELSE processChildren(Tail(nodes), processNode(Head(nodes), parentBox, parent),
                         parent)

\* part_004 lines 95-124 and part_003 lines 76-91, over the properties of
\* BoxStyles: the other edges parse to their default 0
parseBoxModel(b) ==
    [b EXCEPT !.MarginTop = parseLength(b.Style.marginTop, b.Width, 0),
              !.PaddingTop = parseLength(b.Style.paddingTop, b.Width, 0)]

\* part_003 lines 57-73, 94-104, 120-125: InlineBox.Layout of a box without
\* children
InlineLayout(b, containingBlock) ==
    LET placed == IF containingBlock.kind # "nil" /\ b.X = 0 /\ b.Y = 0
                  THEN [b EXCEPT !.X = containingBlock.X
                                          + containingBlock.PaddingLeft,
                                 !.Y = containingBlock.Y
                                          + containingBlock.PaddingTop]
                  ELSE b
        edged == parseBoxModel(placed)
        fontSize == 16 * Unit
    IN  IF edged.Text # <<>>
        THEN [edged EXCEPT !.Width = (Len(edged.Text) * fontSize) \div 2,
                           !.Height = fontSize + edged.PaddingTop]
        ELSE [edged EXCEPT !.Width = 0, !.Height = edged.PaddingTop]

\* part_004 lines 139-153
calculateHeight(b) ==
    IF b.Style.height # NoValue
    THEN [b EXCEPT !.Height = parseLength(b.Style.height, b.Width, 0)]
    ELSE LET n == Len(b.Children)
             inner == IF n > 0
                      THEN b.Children[n].Y + b.Children[n].Height
                               + b.Children[n].MarginBottom - b.Y
                      ELSE 0
         IN  [b EXCEPT !.Height = inner + b.PaddingTop + b.PaddingBottom
                                       + b.BorderTop + b.BorderBottom]

RECURSIVE BlockLayout(_, _)
RECURSIVE layoutChildren(_, _, _)
\* part_004 lines 77-92: BlockBox.Layout
BlockLayout(b, containingBlock) ==
    LET placed == IF containingBlock.kind # "nil"
                  THEN [b EXCEPT !.X = containingBlock.X
                                          + containingBlock.PaddingLeft,
                                 !.Y = containingBlock.Y
                                          + containingBlock.PaddingTop,
                                 !.Width = containingBlock.Width
                                              - containingBlock.PaddingLeft
                                              - containingBlock.PaddingRight]
                  ELSE b
        edged == parseBoxModel(placed)
    IN  calculateHeight(
            layoutChildren(edged, 1,
                           edged.Y + edged.MarginTop + edged.BorderTop
                               + edged.PaddingTop))

\* part_004 lines 127-136: the loop from child k on, y the running top
layoutChildren(b, k, y) ==
    IF k > Len(b.Children) THEN b
    ELSE LET child == [b.Children[k] EXCEPT
                          !.X = b.X + b.MarginLeft + b.BorderLeft + b.PaddingLeft,
                          !.Y = y]
             laid == IF child.kind = "block" THEN BlockLayout(child, b)
                     ELSE IF child.kind = "inline" THEN InlineLayout(child, b)
                     ELSE ImageLayout(child, b)
         IN  layoutChildren([b EXCEPT !.Children[k] = laid], k + 1,
                            y + laid.Height + laid.MarginTop + laid.MarginBottom)

\* a nil *BlockBox
NilBlock == [kind |-> "nil"]

\* the containing blocks BlockBox.Layout is called with: none, or the page
ContainingBlocks ==
    {NilBlock,
     LayoutBox("block", HtmlElement("html", NoBoxStyle, <<>>), NoBoxStyle,
               50 * Unit, 50 * Unit, 400 * Unit, 700 * Unit, <<>>)}

InitBlock ==
    /\ PagIdle
    /\ InlIdle
    /\ TabIdle
    /\ LenIdle
    /\ MsrIdle
    /\ bpc = "start"
    /\ doc \in BlockDocs
    /\ bbox = BodyBox(doc)

\* part_005 lines 561-563: processNode over the children of <body>
ProcessNodes ==
    /\ bpc = "start"
    /\ bbox' = processChildren(doc.Children, bbox, doc)
    /\ bpc' = "built"
    /\ UNCHANGED <<pagVars, inlVars, tabVars, lenVars, msrVars>>
    /\ UNCHANGED doc

\* BlockBox.Layout on the box of <body>
LayoutBlock ==
    /\ bpc = "built"
    /\ \E containingBlock \in ContainingBlocks :
          bbox' = BlockLayout(bbox, containingBlock)
    /\ bpc' = "laid"
    /\ UNCHANGED <<pagVars, inlVars, tabVars, lenVars, msrVars>>
    /\ UNCHANGED doc

NextBlock ==
    \/ ProcessNodes
    \/ LayoutBlock

SpecBlock == InitBlock /\ [][NextBlock]_vars

RECURSIVE AllStacked(_)
\* in block box b and in every block below it, each child after the first
\* starts at the bottom edge of the child before it
AllStacked(b) ==
    b.kind = "block" =>
        /\ \A k \in 2..Len(b.Children) :
               b.Children[k].Y = b.Children[k - 1].Y + b.Children[k - 1].Height
        /\ \A k \in 1..Len(b.Children) : AllStacked(b.Children[k])

\* C13 (as claimed): in every block box that processNode or BlockBox.Layout
\* produced, each child after the first has its top at the previous sibling's
\* bottom edge.
C13_ChildrenStacked ==
    bpc \in {"built", "laid"} => AllStacked(bbox)

\* the part of C13 about processNode alone
C13_StackedByProcessNode ==
    bpc = "built" => AllStacked(bbox)

\* the width of the content area of block box b
ContentWidth(b) ==
    b.Width - b.PaddingLeft - b.PaddingRight - b.BorderLeft - b.BorderRight

\* the width the claim gives a block box whose containing block is p
ClaimedWidth(b, p) ==
    IF b.Node.style.width # NoValue
    THEN parseLength(b.Node.style.width, ContentWidth(p), 0)
    ELSE ContentWidth(p)

RECURSIVE WidthsAsClaimed(_)
\* every block child of b, and of the blocks below it, has its claimed width
WidthsAsClaimed(b) ==
    \A k \in 1..Len(b.Children) :
        b.Children[k].kind = "block" =>
            /\ b.Children[k].Width = ClaimedWidth(b.Children[k], b)
            /\ WidthsAsClaimed(b.Children[k])

\* C21 (as claimed): a block box is as wide as its containing block's
\* content area, unless its element's style sets a width, and then it is as
\* wide as that value.
C21_BlockWidth ==
    bpc \in {"built", "laid"} => WidthsAsClaimed(bbox)

RECURSIVE FillsContainingBlock(_)
\* every block child of b, and of the blocks below it, is as wide as the
\* content area of the block that holds it
FillsContainingBlock(b) ==
    \A k \in 1..Len(b.Children) :
        b.Children[k].kind = "block" =>
            /\ b.Children[k].Width = ContentWidth(b)
            /\ FillsContainingBlock(b.Children[k])

\* what holds instead: the width property is not read for a block box
C21_WidthIgnored ==
    bpc \in {"built", "laid"} => FillsContainingBlock(bbox)

RECURSIVE BoxesBelow(_)
\* the boxes below box b, at every depth
BoxesBelow(b) ==
    UNION {{b.Children[k]} \cup BoxesBelow(b.Children[k]) :
              k \in 1..Len(b.Children)}

\* the classification the claim gives an element, from its own style
ClaimedBlock(node) ==
    \/ node.style.display \in {"block", "flex", "grid"}
    \/ /\ node.style.display \notin {"inline", "inline-block"}
       /\ isBlockTag(node.tag)

\* C22 (as claimed): the box of every element other than <img> is a block
\* box exactly when the element's own display is block, flex or grid, or it
\* is neither inline nor inline-block and the tag is a block tag; the
\* parent's display plays no part.
C22_ClassifiedByOwnDisplay ==
    bpc = "built" =>
        \A b \in BoxesBelow(bbox) :
            b.Node.type = "element" /\ b.Node.tag # "img" =>
                (b.kind = "block" <=> ClaimedBlock(b.Node))

\* the part of C22 about elements directly below <body>, which sets no
\* display
C22_TopLevelClassified ==
    bpc = "built" =>
        \A k \in 1..Len(bbox.Children) :
            LET b == bbox.Children[k]
            IN  b.Node.type = "element" /\ b.Node.tag # "img"
                    /\ b.Node \in Range(doc.Children) =>
                        (b.kind = "block" <=> ClaimedBlock(b.Node))

-----------------------------------------------------------------------------
(* parseLength on the text of a CSS value.                                   *)
(*                                                                           *)
(* A value is a sequence of one-character strings.  Lengths are hundredths   *)
(* of a point, as everywhere.                                                *)

\* longest value explored, and greatest decimal exponent of a number in it
MaxValueLen == 4
MaxExponent == 2

DigitChars == {"2", "5"}
ValueChars == DigitChars \cup {"e", "m", "r", "p", "x", "%"}

DigitValue(c) == IF c = "2" THEN 2 ELSE 5

IsDigits(s) == s # <<>> /\ \A k \in 1..Len(s) : s[k] \in DigitChars

RECURSIVE DigitsValue(_)
\* the number a run of digits denotes
DigitsValue(s) ==
    IF s = <<>> THEN 0
    ELSE 10 * DigitsValue(SubSeq(s, 1, Len(s) - 1)) + DigitValue(s[Len(s)])

RECURSIVE Pow10(_)
Pow10(n) == IF n = 0 THEN 1 ELSE 10 * Pow10(n - 1)

\* strconv.ParseFloat on the characters above: digits, or digits "e" digits
ParseFloat(s) ==
    IF IsDigits(s) THEN [ok |-> TRUE, v |-> DigitsValue(s)]
    ELSE IF \E k \in 1..Len(s) : /\ s[k] = "e"
                                 /\ IsDigits(SubSeq(s, 1, k - 1))
                                 /\ IsDigits(SubSeq(s, k + 1, Len(s)))
    THEN LET k == CHOOSE j \in 1..Len(s) : s[j] = "e"
         IN  [ok |-> TRUE,
              v |-> DigitsValue(SubSeq(s, 1, k - 1))
                        * Pow10(DigitsValue(SubSeq(s, k + 1, Len(s))))]
    ELSE [ok |-> FALSE, v |-> 0]

\* strings.HasSuffix
HasSuffix(s, suffix) ==
    /\ Len(s) >= Len(suffix)
    /\ SubSeq(s, Len(s) - Len(suffix) + 1, Len(s)) = suffix

\* value[:len(value)-n]
DropLast(s, n) == SubSeq(s, 1, Len(s) - n)

\* part_003 lines 199-241, branch by branch in the order of the code
parseLengthText(value, containerSize, defaultValue) ==
    IF value = <<>> THEN defaultValue
    ELSE IF HasSuffix(value, <<"%">>)
    THEN LET percentage == ParseFloat(DropLast(value, 1))
         IN  IF ~percentage.ok THEN defaultValue
             ELSE (containerSize * percentage.v) \div 100
    ELSE IF HasSuffix(value, <<"p", "x">>)
    THEN LET pixels == ParseFloat(DropLast(value, 2))
         IN  IF ~pixels.ok THEN defaultValue ELSE pixels.v * Unit
    ELSE IF HasSuffix(value, <<"e", "m">>)
    THEN LET ems == ParseFloat(DropLast(value, 2))
         IN  IF ~ems.ok THEN defaultValue ELSE ems.v * 16 * Unit
    ELSE IF HasSuffix(value, <<"r", "e", "m">>)
    THEN LET rems == ParseFloat(DropLast(value, 3))
         IN  IF ~rems.ok THEN defaultValue ELSE rems.v * 16 * Unit
    ELSE LET pixels == ParseFloat(value)
         IN  IF ~pixels.ok THEN defaultValue ELSE pixels.v * Unit

\* the exponents written in a value stay within MaxExponent
SmallExponents(s) ==
    \A k \in 1..Len(s) :
        \A j \in (k + 1)..Len(s) :
            (s[k] = "e" /\ IsDigits(SubSeq(s, k + 1, j)))
                => DigitsValue(SubSeq(s, k + 1, j)) <= MaxExponent

LengthValues ==
    {s \in UNION {[1..n -> ValueChars] : n \in 0..MaxValueLen} :
        SmallExponents(s)}

ContainerSizes == {200 * Unit}
DefaultLengths == {0, 7 * Unit}

InitLength ==
    /\ PagIdle
    /\ InlIdle
    /\ TabIdle
    /\ BlkIdle
    /\ MsrIdle
    /\ lpc = "call"
    /\ lenIn \in [value : LengthValues, containerSize : ContainerSizes,
                  defaultValue : DefaultLengths]
    /\ lenOut = 0

\* the call returns
ParseLength ==
    /\ lpc = "call"
    /\ lenOut' = parseLengthText(lenIn.value, lenIn.containerSize,
                                 lenIn.defaultValue)
    /\ lpc' = "done"
    /\ UNCHANGED <<pagVars, inlVars, tabVars, blkVars, msrVars>>
    /\ UNCHANGED lenIn

NextLength == ParseLength

SpecLength == InitLength /\ [][NextLength]_vars

\* the number n of a value written n followed by unit, when it is one
NumberBefore(value, unit) ==
    IF HasSuffix(value, unit) THEN ParseFloat(DropLast(value, Len(unit)))
    ELSE [ok |-> FALSE, v |-> 0]

\* the length the claim gives a value
ClaimedLength(value, containerSize, defaultValue) ==
    IF NumberBefore(value, <<"p", "x">>).ok
    THEN NumberBefore(value, <<"p", "x">>).v * Unit
    ELSE IF ParseFloat(value).ok THEN ParseFloat(value).v * Unit
    ELSE IF NumberBefore(value, <<"%">>).ok
    THEN (containerSize * NumberBefore(value, <<"%">>).v) \div 100
    ELSE IF NumberBefore(value, <<"r", "e", "m">>).ok
    THEN NumberBefore(value, <<"r", "e", "m">>).v * 16 * Unit
    ELSE IF NumberBefore(value, <<"e", "m">>).ok
    THEN NumberBefore(value, <<"e", "m">>).v * 16 * Unit
    ELSE defaultValue

\* C14 (as claimed): parseLength returns n for "npx" and for a bare n,
\* containerSize * n / 100 for "n%", 16n for "nem", 16n for "nrem", and the
\* default for an empty or unparseable value.
C14_ParseLength ==
    lpc = "done" =>
        lenOut = ClaimedLength(lenIn.value, lenIn.containerSize,
                               lenIn.defaultValue)

-----------------------------------------------------------------------------
(* Table rows whose cells hold nested content: processNode on a <tr> whose   *)
(* cells hold text, images, inline elements and blocks inside blocks, then   *)
(* layoutTableRow.                                                            *)

\* what a cell may hold: text; an image; text and a <div> of text and an
\* empty <div>; a <span> of text and a <div> holding a <div> holding an image
CellContents ==
    {<<HtmlText>>,
     <<HtmlElement("img", NoBoxStyle, <<>>)>>,
     <<HtmlText, HtmlElement("div", NoBoxStyle, <<HtmlText, LeafDiv>>)>>,
     <<HtmlElement("span", NoBoxStyle, <<HtmlText>>),
       HtmlElement("div", NoBoxStyle,
           <<HtmlElement("div", NoBoxStyle,
                 <<HtmlElement("img", NoBoxStyle, <<>>)>>)>>)>>}

\* a <td> element with its width, its colspan attribute (0: none) and its
\* children
FilledCell(width, colspan, content) ==
    [type |-> "element", tag |-> "td", style |-> NoBoxStyle,
     Children |-> content, Tag |-> "td", Style |-> [width |-> width],
     Colspan |-> colspan]

FilledRows ==
    UNION {[1..n -> {FilledCell(w, 0, content) :
                        w \in BodyCellWidths, content \in CellContents}] :
           n \in 1..MaxCells}

\* a table without a <thead>
InitCells ==
    /\ PagIdle
    /\ InlIdle
    /\ BlkIdle
    /\ LenIdle
    /\ MsrIdle
    /\ tpc = "ready"
    /\ table \in {t \in Tables : t.Head = <<>>}
    /\ rowIdx = 0
    /\ rowTop = table.Y
    /\ row = <<>>
    /\ rowGap = 0
    /\ rowColWidths = <<>>

\* processNode on the next <tr> and, through the loop over its children, on
\* its cells and on everything they hold, up to the call of layoutTableRow
\* at line 935
ProcessFilledRow ==
    /\ tpc = "ready"
    /\ rowIdx < MaxRows
    /\ \E st \in RowGapStyles :
       \E cells \in FilledRows :
          LET node == [type |-> "element", tag |-> "tr", style |-> NoBoxStyle,
                       Children |-> cells, Tag |-> "tr", Style |-> st,
                       Cells |-> cells]
              parentBox == [table EXCEPT !.Y = rowTop]
          IN  row' = processChildren(cells, NewBlock(node, st, parentBox), node)
    /\ tpc' = "built"
    /\ UNCHANGED <<pagVars, inlVars, blkVars, lenVars, msrVars>>
    /\ UNCHANGED <<table, rowIdx, rowTop, rowGap, rowColWidths>>

NextCells ==
    \/ ProcessFilledRow
    \/ LayoutRow
    \/ NextRow

SpecCells == InitCells /\ [][NextCells]_vars

RECURSIVE Translated(_, _, _, _)
\* the boxes of after are those of before moved by (dx, dy), and so are the
\* boxes below them, at every depth
Translated(before, after, dx, dy) ==
    /\ Len(after) = Len(before)
    /\ \A k \in 1..Len(before) :
           /\ after[k].kind = before[k].kind
           /\ after[k].X = before[k].X + dx
           /\ after[k].Y = before[k].Y + dy
           /\ Translated(before[k].Children, after[k].Children, dx, dy)

\* C19: when layoutTableRow moves a cell by (dx, dy), every box below the
\* cell, at every depth and of every kind, is moved by exactly (dx, dy).
C19_DescendantsFollowCell ==
    [][LayoutRow =>
          /\ Len(row'.Children) = Len(row.Children)
          /\ \A k \in 1..Len(row.Children) :
                 Translated(row.Children[k].Children, row'.Children[k].Children,
                            row'.Children[k].X - row.Children[k].X,
                            row'.Children[k].Y - row.Children[k].Y)]_vars

\* a laid out row whose second cell, moved to the right of the first and up
\* to the row's top, holds an inline box and a block holding a block holding
\* an image, the image at the cell's left edge
C19_Witness ==
    /\ tpc = "laid"
    /\ Len(row.Children) >= 2
    /\ LET cell == row.Children[2]
       IN  /\ cell.X > row.X
           /\ cell.Y = row.Y
           /\ Len(cell.Children) = 3
           /\ cell.Children[1].kind = "inline"
           /\ cell.Children[3].kind = "block"
           /\ Len(cell.Children[3].Children) = 1
           /\ cell.Children[3].Children[1].kind = "block"
           /\ Len(cell.Children[3].Children[1].Children) = 1
           /\ cell.Children[3].Children[1].Children[1].kind = "image"
           /\ cell.Children[3].Children[1].Children[1].X = cell.X
           /\ cell.Children[3].Children[1].Children[1].Y > cell.Y

-----------------------------------------------------------------------------
(* Cells and their content after layoutTableRow *)

\* box c lies horizontally inside box b
InsideHorizontally(c, b) ==
    /\ c.X >= b.X
    /\ c.X + c.Width <= b.X + b.Width

\* C29: after layoutTableRow every cell of the row lies horizontally inside
\* the row, whatever the declared column widths, the colspans, the gap and
\* the number of cells.
C29_CellsInsideRow ==
    CellsLaidOut =>
        \A k \in 1..Len(row.Children) : InsideHorizontally(row.Children[k], row)

\* C30: after layoutTableRow every direct child box of a cell lies
\* horizontally inside the cell.
C30_ContentInsideCell ==
    CellsLaidOut =>
        \A k \in 1..Len(row.Children) :
            \A j \in 1..Len(row.Children[k].Children) :
                InsideHorizontally(row.Children[k].Children[j], row.Children[k])

-----------------------------------------------------------------------------
(* measureTextWidth called from several goroutines that share measurePDF.    *)
(*                                                                           *)
(* Each goroutine walks through the statements of measureTextWidth; a step   *)
(* of one may come between any two steps of another.                         *)

\* the style properties resolveFontFromStyle reads; "": not set
FontStyles ==
    {[fontFamily |-> "", fontWeight |-> "", fontStyle |-> ""],
     [fontFamily |-> "times", fontWeight |-> "", fontStyle |-> ""],
     [fontFamily |-> "courier", fontWeight |-> "bold", fontStyle |-> ""]}

\* the explored calls: a one-letter or empty text, a font size, a style
MeasureCalls ==
    [text : {<<>>, <<"a">>}, fontSize : {0, 10 * Unit, 20 * Unit},
     st : FontStyles]

\* part_005 lines 187-210: resolveFontFromStyle
resolveFontFromStyle(st) ==
    [family |-> CASE st.fontFamily \in {"arial", "helvetica", "sans-serif"}
                       -> "Helvetica"
                  [] st.fontFamily \in {"times", "times new roman", "serif"}
                       -> "Times"
                  [] st.fontFamily \in {"courier", "courier new", "monospace"}
                       -> "Courier"
                  [] OTHER -> "Helvetica",
     style |-> (IF st.fontWeight \in {"bold", "700", "800", "900"}
                THEN "B" ELSE "")
               \o (IF st.fontStyle = "italic" THEN "I" ELSE "")]

\* fpdf's core font metrics: the advance of the letter a, in 1/1000 of the
\* font size
CharWidth(family, style) ==
    CASE family = "Courier" -> 600
      [] family = "Times" -> (IF style = "" THEN 444 ELSE 500)
      [] OTHER -> 556

\* line 184: Fpdf.GetStringWidth with the font selected in pdf
GetStringWidth(pdf, text) ==
    (Len(text) * CharWidth(pdf.family, pdf.style) * pdf.size) \div 1000

\* a mutex that lets every goroutine in
LockAlways(mu) == TRUE

\* line 180: measureMu.Lock() returns only while no goroutine holds the mutex
Lock(mu) == mu = 0

InitMeasure ==
    /\ PagIdle
    /\ InlIdle
    /\ TabIdle
    /\ BlkIdle
    /\ LenIdle
    /\ MsrIdle

\* lines 175-178: a goroutine calls measureTextWidth; an empty text or a
\* font size that is not positive returns 0 at once
Call(p) ==
    /\ mpc[p] = "idle"
    /\ \E c \in MeasureCalls :
          /\ margs' = [margs EXCEPT ![p] = c]
          /\ IF c.text = <<>> \/ c.fontSize <= 0
             THEN /\ mpc' = [mpc EXCEPT ![p] = "done"]
                  /\ mret' = [mret EXCEPT ![p] = 0]
             ELSE /\ mpc' = [mpc EXCEPT ![p] = "once"]
                  /\ UNCHANGED mret
    /\ UNCHANGED <<pagVars, inlVars, tabVars, blkVars, lenVars>>
    /\ UNCHANGED <<measureOnce, measureMu, measurePDF>>

\* line 179 and lines 169-172: measureOnce.Do(initMeasurePDF); the first
\* caller builds the object and selects Helvetica 12, the others wait for it
Once(p) ==
    /\ mpc[p] = "once"
    /\ measurePDF' = IF measureOnce THEN measurePDF
                     ELSE [family |-> "Helvetica", style |-> "",
                           size |-> 12 * Unit]
    /\ measureOnce' = TRUE
    /\ mpc' = [mpc EXCEPT ![p] = "lock"]
    /\ UNCHANGED <<pagVars, inlVars, tabVars, blkVars, lenVars>>
    /\ UNCHANGED <<margs, mret, measureMu>>

\* line 180: measureMu.Lock()
Acquire(p) ==
    /\ mpc[p] = "lock"
    /\ Lock(measureMu)
    /\ measureMu' = p
    /\ mpc' = [mpc EXCEPT ![p] = "font"]
    /\ UNCHANGED <<pagVars, inlVars, tabVars, blkVars, lenVars>>
    /\ UNCHANGED <<margs, mret, measureOnce, measurePDF>>

\* lines 182-183: measurePDF.SetFont(fam, sty, fontSize)
SetFont(p) ==
    /\ mpc[p] = "font"
    /\ measurePDF' = [family |-> resolveFontFromStyle(margs[p].st).family,
                      style |-> resolveFontFromStyle(margs[p].st).style,
                      size |-> margs[p].fontSize]
    /\ mpc' = [mpc EXCEPT ![p] = "width"]
    /\ UNCHANGED <<pagVars, inlVars, tabVars, blkVars, lenVars>>
    /\ UNCHANGED <<margs, mret, measureOnce, measureMu>>

\* line 184: the result is measurePDF.GetStringWidth(text)
Measure(p) ==
    /\ mpc[p] = "width"
    /\ mret' = [mret EXCEPT ![p] = GetStringWidth(measurePDF, margs[p].text)]
    /\ mpc' = [mpc EXCEPT ![p] = "unlock"]
    /\ UNCHANGED <<pagVars, inlVars, tabVars, blkVars, lenVars>>
    /\ UNCHANGED <<margs, measureOnce, measureMu, measurePDF>>

\* line 181: the deferred measureMu.Unlock(), and the return
Release(p) ==
    /\ mpc[p] = "unlock"
    /\ measureMu' = 0
    /\ mpc' = [mpc EXCEPT ![p] = "done"]
    /\ UNCHANGED <<pagVars, inlVars, tabVars, blkVars, lenVars>>
    /\ UNCHANGED <<margs, mret, measureOnce, measurePDF>>

\* the caller takes the result; the goroutine may call again
Return(p) ==
    /\ mpc[p] = "done"
    /\ mpc' = [mpc EXCEPT ![p] = "idle"]
    /\ margs' = [margs EXCEPT ![p] = <<>>]
    /\ mret' = [mret EXCEPT ![p] = 0]
    /\ UNCHANGED <<pagVars, inlVars, tabVars, blkVars, lenVars>>
    /\ UNCHANGED <<measureOnce, measureMu, measurePDF>>

NextMeasure ==
    \E p \in Procs :
        \/ Call(p)
        \/ Once(p)
        \/ Acquire(p)
        \/ SetFont(p)
        \/ Measure(p)
        \/ Release(p)
        \/ Return(p)

SpecMeasure == InitMeasure /\ [][NextMeasure]_vars

\* the width of a call's text in the call's own font
OwnWidth(c) ==
    IF c.text = <<>> \/ c.fontSize <= 0 THEN 0
    ELSE GetStringWidth([family |-> resolveFontFromStyle(c.st).family,
                         style |-> resolveFontFromStyle(c.st).style,
                         size |-> c.fontSize], c.text)

\* between selecting its font and its width query
InCriticalSection(p) == mpc[p] \in {"font", "width", "unlock"}

\* C23: concurrent calls of measureTextWidth are serialized: no two
\* goroutines are between the lock and the unlock at once, the font selected
\* in the shared object while a goroutine queries the width is its own, and
\* every call returns the width of its text in its own font.
C23_MeasureSerialized ==
    /\ \A p, q \in Procs :
           InCriticalSection(p) /\ InCriticalSection(q) => p = q
    /\ \A p \in Procs :
           mpc[p] = "width" =>
               GetStringWidth(measurePDF, margs[p].text) = OwnWidth(margs[p])
    /\ \A p \in Procs :
           mpc[p] \in {"unlock", "done"} => mret[p] = OwnWidth(margs[p])

\* one goroutine has its result, in its own font, while another, with a
\* font of another width, has selected its font and waits for its width
C23_Witness ==
    \E p, q \in Procs :
        /\ mpc[p] = "done"
        /\ mret[p] > 0
        /\ mret[p] = OwnWidth(margs[p])
        /\ mpc[q] = "width"
        /\ OwnWidth(margs[q]) # OwnWidth(margs[p])
        /\ GetStringWidth(measurePDF, margs[p].text) # mret[p]

====
